---- MODULE Spec2Model ----
(***************************************************************************)
(* Model of the PaperMind backend (pdf-backend): the stateless watch-tick  *)
(* pipeline of services/excel.ts working against a OneDrive folder tree.   *)
(*                                                                         *)
(* JavaScript strings that the code inspects character by character (file  *)
(* names, extracted text, the BATCH_SIZE environment value) are sequences  *)
(* of one-character strings.  JavaScript numbers are records               *)
(* [nan, x10]: nan says the value is NaN, x10 is the value times ten, so   *)
(* that one decimal digit is representable.                                *)
(***************************************************************************)
EXTENDS Integers, Sequences, FiniteSets, TLC

\* ------------------------------------------------------------------ bounds
\* number of items of the drive catalogue
MaxItems == 5
\* number of tick requests served in one behaviour
MaxTicks == 2

\* ------------------------------------------------------- JavaScript strings
UpperCase ==
  <<"A","B","C","D","E","F","G","H","I","J","K","L","M",
    "N","O","P","Q","R","S","T","U","V","W","X","Y","Z">>

LowerCase ==
  <<"a","b","c","d","e","f","g","h","i","j","k","l","m",
    "n","o","p","q","r","s","t","u","v","w","x","y","z">>

toLowerCaseChar(c) ==
  IF \E k \in 1..26 : UpperCase[k] = c
    THEN LowerCase[CHOOSE k \in 1..26 : UpperCase[k] = c]
    ELSE c

\* String.prototype.toLowerCase
toLowerCase(s) == [k \in 1..Len(s) |-> toLowerCaseChar(s[k])]

\* String.prototype.endsWith
endsWith(s, suffix) ==
  /\ Len(s) >= Len(suffix)
  /\ SubSeq(s, Len(s) - Len(suffix) + 1, Len(s)) = suffix

IsWhiteSpace(c) == c \in {" ", "\t", "\n", "\r"}

RECURSIVE trimStart(_)
trimStart(s) ==
  IF s # <<>> /\ IsWhiteSpace(Head(s)) THEN trimStart(Tail(s)) ELSE s

RECURSIVE trimEnd(_)
trimEnd(s) ==
  IF s # <<>> /\ IsWhiteSpace(s[Len(s)])
    THEN trimEnd(SubSeq(s, 1, Len(s) - 1))
    ELSE s

\* String.prototype.trim
trim(s) == trimEnd(trimStart(s))

\* String.prototype.slice(0, n) for n >= 0
sliceStr(s, n) == SubSeq(s, 1, IF n < Len(s) THEN n ELSE Len(s))

\* ------------------------------------------------------- JavaScript numbers
NaN == [nan |-> TRUE, x10 |-> 0]

Num(x10) == [nan |-> FALSE, x10 |-> x10]

Digits == <<"0","1","2","3","4","5","6","7","8","9">>

IsDigit(c) == \E k \in 1..10 : Digits[k] = c

DigitVal(c) == (CHOOSE k \in 1..10 : Digits[k] = c) - 1

AllDigits(s) == \A k \in 1..Len(s) : IsDigit(s[k])

RECURSIVE DecimalVal(_)
DecimalVal(s) ==
  IF s = <<>> THEN 0
  ELSE 10 * DecimalVal(SubSeq(s, 1, Len(s) - 1)) + DigitVal(s[Len(s)])

\* position of the first "." of s, or 0
DotPos(s) ==
  IF \E k \in 1..Len(s) : s[k] = "."
    THEN CHOOSE k \in 1..Len(s) : s[k] = "." /\ \A j \in 1..(k - 1) : s[j] # "."
    ELSE 0

\* unsigned StrDecimalLiteral: digits, optionally a "." and more digits, at
\* least one digit in all.  The value keeps the first fractional digit.
UnsignedDecimal(s) ==
  LET d    == DotPos(s)
      ip   == IF d = 0 THEN s ELSE SubSeq(s, 1, d - 1)
      fp   == IF d = 0 THEN <<>> ELSE SubSeq(s, d + 1, Len(s))
  IN  IF AllDigits(ip) /\ AllDigits(fp) /\ Len(ip) + Len(fp) > 0
        THEN Num(10 * DecimalVal(ip) + (IF fp = <<>> THEN 0 ELSE DigitVal(fp[1])))
        ELSE NaN

\* Number(string): white space is trimmed, the empty string is 0, a signed
\* decimal literal is its value, anything else is NaN.
Number(s) ==
  LET t == trim(s)
  IN  IF t = <<>> THEN Num(0)
      ELSE IF Head(t) \in {"+", "-"}
        THEN LET u == UnsignedDecimal(Tail(t))
             IN  IF u.nan THEN NaN
                 ELSE IF Head(t) = "-" THEN Num(0 - u.x10) ELSE u
        ELSE UnsignedDecimal(t)

\* Math.max / Math.min: NaN when an argument is NaN
MathMax(a, b) ==
  IF a.nan \/ b.nan THEN NaN ELSE IF a.x10 >= b.x10 THEN a ELSE b

MathMin(a, b) ==
  IF a.nan \/ b.nan THEN NaN ELSE IF a.x10 <= b.x10 THEN a ELSE b

\* the relational operator a <= b on numbers: false when either is NaN
LessEq(a, b) == ~a.nan /\ ~b.nan /\ a.x10 <= b.x10

\* ToIntegerOrInfinity: NaN becomes 0, other values are truncated towards 0
ToIntegerOrInfinity(a) ==
  IF a.nan THEN 0
  ELSE IF a.x10 >= 0 THEN a.x10 \div 10 ELSE 0 - ((0 - a.x10) \div 10)

\* Array.prototype.slice(0, end)
slice0(arr, end) ==
  LET len    == Len(arr)
      relEnd == ToIntegerOrInfinity(end)
      final  == IF relEnd < 0
                  THEN (IF len + relEnd > 0 THEN len + relEnd ELSE 0)
                  ELSE (IF relEnd < len THEN relEnd ELSE len)
  IN  SubSeq(arr, 1, final)

\* ------------------------------------------------------------ configuration
\* an environment variable: unset, or set to a string
EnvUnset == [defined |-> FALSE, value |-> <<>>]

EnvSet(s) == [defined |-> TRUE, value |-> s]

\* the values of process.env.BATCH_SIZE the model starts from
BatchSizeEnvValues ==
  { EnvUnset,
    EnvSet(<<>>),
    EnvSet(<<"0">>),
    EnvSet(<<"-","3">>),
    EnvSet(<<"1">>),
    EnvSet(<<"2">>),
    EnvSet(<<" ","3"," ">>),
    EnvSet(<<"9">>),
    EnvSet(<<"2",".","5">>),
    EnvSet(<<"a","b","c">>) }

\* process.env.X || dflt
EnvOr(e, dflt) == IF e.defined /\ e.value # <<>> THEN e.value ELSE dflt

\* const BATCH_SIZE = Math.min(Math.max(Number(process.env.BATCH_SIZE || "2"), 1), 5)
BatchSizeOf(e) == MathMin(MathMax(Number(EnvOr(e, <<"2">>)), Num(10)), Num(50))

\* --------------------------------------------------------- optional values
\* an optional string: <<>> is undefined/null, <<s>> is the string s
Undefined == <<>>

Falsy(v) == v = <<>> \/ v = <<"">>

\* a || b
JsOr(a, b) == IF Falsy(a) THEN b ELSE a

\* object spread {...a, ...b} on records
Spread(a, b) ==
  [k \in DOMAIN a \cup DOMAIN b |-> IF k \in DOMAIN b THEN b[k] ELSE a[k]]

\* ------------------------------------------------------------- remote drive
\* The children the drive can hold: name, whether the item carries the file
\* facet (a folder does not), and the text its content yields on extraction.
Catalogue ==
  << [name |-> <<"a",".","p","d","f">>, file |-> TRUE,
      text |-> <<" ","\n","T","1"," ","\n","x">>],
     [name |-> <<"s",".","p","d","f">>, file |-> FALSE,
      text |-> <<>>],
     [name |-> <<"B",".","P","D","F">>, file |-> TRUE,
      text |-> <<" ","\n">>],
     [name |-> <<"n",".","t","x","t">>, file |-> TRUE,
      text |-> <<"n">>],
     [name |-> <<"c",".","P","d","f">>, file |-> TRUE,
      text |-> <<"T","3">>],
     [name |-> <<"d",".","p","d","f">>, file |-> TRUE,
      text |-> <<>>],
     [name |-> <<"x","p","d","f">>, file |-> TRUE,
      text |-> <<"x">>] >>

Items == 1..MaxItems

\* the DriveItem with id i, as a children listing returns it
DriveItem(i) ==
  LET c == Catalogue[((i - 1) % Len(Catalogue)) + 1]
  IN  [id |-> i, name |-> c.name, file |-> c.file]

\* the text extraction yields: fullText.trim()
ItemText(i) == trim(Catalogue[((i - 1) % Len(Catalogue)) + 1].text)

\* $top of the children request
ListTop == 50

\* statuses of a remote call that answers with an error
ErrorStatuses == {404, 503}

\* the concurrent tick handlers; Spec runs them one at a time
Procs == {1, 2}

SeqProcs == {1}

VARIABLES
  envBatchSize,   \* process.env.BATCH_SIZE
  envOpenAiKey,   \* process.env.OPENAI_API_KEY
  loc,            \* folder of every drive item: "inbox", "processed", "none"
  inboxExists,    \* whether the folder ONEDRIVE_ENTRADA_PATH exists on the drive
  ticks,          \* tick requests received so far
  pc,             \* position of each tick handler
  req,            \* the request a handler is about to read its credential from
  token,          \* its access token
  listing,        \* ids of listing.json.value
  files,          \* ids of the filtered candidates
  batch,          \* ids of files.slice(0, BATCH_SIZE)
  idx,            \* position of the for-of loop in batch
  results,        \* the results array
  response,       \* the response sent on res
  calls,          \* remote and collaborator calls issued by the handler
  blob,           \* the drive file PaperMind/papermind.xlsx: <<>> or <<buffer>>
  pages,          \* the pages created in the Notion database
  clock,          \* the time new Date() returns
  ap,             \* the handlers of POST /excel/append
  hist,           \* the append requests answered so far, in order
  gm,             \* the call of generateMetadata that has just returned
  up,             \* the run of uploadLargeFile
  watch,          \* the last call of a compatibility route and its response
  exportFails,    \* the exporters whose calls reject
  ms,             \* Microsoft OAuth: the browser's cookies, the last request
                  \* of /login or /callback and its response
  nt,             \* notion.ts: lastNotionAccessToken, _dbCache, the session
                  \* store and the exportToNotion calls in flight
  faults          \* the drive's fault pattern: fixed says that every request
                  \* is answered 2xx except the relocations of the items in
                  \* stuck, which are refused every time

tickVars ==
  <<envBatchSize, envOpenAiKey, loc, inboxExists, ticks, pc, req, token,
    listing, files, batch, idx, results, response, calls>>

storeVars == <<blob, pages, exportFails, faults>>

appendVars == <<clock, ap, hist>>

metaVars == <<gm>>

uploadVars == <<up>>

watchVars == <<watch>>

authVars == <<ms, nt>>

vars ==
  <<tickVars, storeVars, appendVars, metaVars, uploadVars, watchVars, authVars>>

BATCH_SIZE == BatchSizeOf(envBatchSize)

ONEDRIVE_ENTRADA_PATH == "inbox"

ONEDRIVE_PROCESSADOS_PATH == "processed"

NoResponse == [sent |-> FALSE]

\* a request without credential carriers; also the value of req once the
\* handler has read its credential
NoRequest == [cookie |-> <<>>, header |-> <<>>]

\* res.status(s).json(b)
Json(s, b) == [sent |-> TRUE, status |-> s, body |-> b]

RECURSIVE Ascending(_)
\* the elements of a finite set of integers in ascending order
Ascending(S) ==
  IF S = {} THEN <<>>
  ELSE LET m == CHOOSE x \in S : \A y \in S : x <= y
       IN  <<m>> \o Ascending(S \ {m})

\* a listing that returns the children of every folder of the drive
Children_anyFolder(folder) ==
  LET all == Ascending({i \in Items : loc[i] # "none"})
  IN  SubSeq(all, 1, IF Len(all) < ListTop THEN Len(all) ELSE ListTop)

\* a listing that leaves out the items a running tick has selected
Children_unclaimed(folder) ==
  LET all == Ascending({i \in Items :
                          /\ loc[i] = folder
                          /\ \A q \in Procs : \A k \in 1..Len(batch[q]) :
                               batch[q][k] # i})
  IN  SubSeq(all, 1, IF Len(all) < ListTop THEN Len(all) ELSE ListTop)

\* GET /me/drive/root:<folder>:/children?$top=50 answered 200: the first
\* ListTop children of the folder, in the drive's listing order
Children(folder) ==
  LET all == Ascending({i \in Items : loc[i] = folder})
  IN  SubSeq(all, 1, IF Len(all) < ListTop THEN Len(all) ELSE ListTop)

\* ------------------------------------------------------ metadata generator
\* JavaScript values held by a PaperMeta or by the model's JSON answer
Str(s) == [t |-> "string", v |-> s]

Arr(a) == [t |-> "array", v |-> a]

Obj(r) == [t |-> "object", v |-> r]

Null == [t |-> "null", v |-> <<>>]

\* the object {}
EmptyObject == [k \in {} |-> Null]

\* outcome of JSON.parse(content)
ParseThrows == [throws |-> TRUE, value |-> Null]

Parsed(v) == [throws |-> FALSE, value |-> v]

\* outcome of the chat-completions call: fetch rejects, the body is not JSON
\* (r.json() rejects), the JSON body has no choices[0].message.content, or it
\* has one, whose JSON.parse outcome is given
FetchRejects == [kind |-> "fetch_rejects", parsed |-> ParseThrows]

BodyNotJson == [kind |-> "body_not_json", parsed |-> ParseThrows]

NoCompletion == [kind |-> "no_completion", parsed |-> ParseThrows]

Completion(parsed) == [kind |-> "completion", parsed |-> parsed]

RECURSIVE splitLines(_)
\* text.split("\n")
splitLines(s) ==
  IF \E k \in 1..Len(s) : s[k] = "\n"
    THEN LET k == CHOOSE k \in 1..Len(s) :
                    s[k] = "\n" /\ \A j \in 1..(k - 1) : s[j] # "\n"
         IN  <<SubSeq(s, 1, k - 1)>> \o splitLines(SubSeq(s, k + 1, Len(s)))
    ELSE <<s>>

RECURSIVE joinComma(_)
\* Array.prototype.join(",") on an array of strings
joinComma(a) ==
  IF a = <<>> THEN <<>>
  ELSE IF Len(a) = 1 THEN a[1]
  ELSE a[1] \o <<",">> \o joinComma(Tail(a))

\* String(meta[k] || "").trim()
StringField(meta, k) ==
  IF k \notin DOMAIN meta THEN <<>>
  ELSE IF meta[k].t = "string" THEN trim(meta[k].v)
  ELSE IF meta[k].t = "array" THEN trim(joinComma(meta[k].v))
  ELSE IF meta[k].t = "object"
    THEN <<"[","o","b","j","e","c","t"," ","O","b","j","e","c","t","]">>
  ELSE <<>>

\* Array.isArray(meta[k]) ? meta[k] : []
ArrayField(meta, k) ==
  IF k \in DOMAIN meta /\ meta[k].t = "array" THEN meta[k] ELSE Arr(<<>>)

\* fileName.replace(/\.pdf$/i, "")
stripPdfExtension(fileName) ==
  IF endsWith(toLowerCase(fileName), <<".","p","d","f">>)
    THEN SubSeq(fileName, 1, Len(fileName) - 4)
    ELSE fileName

\* variant without .map((s) => s.trim()): the first line that is not empty
firstNonEmpty_untrimmed(text, fileName) ==
  LET lines    == splitLines(text)
      nonEmpty == SelectSeq(lines, LAMBDA l : l # <<>>)
  IN  IF nonEmpty # <<>> THEN nonEmpty[1] ELSE stripPdfExtension(fileName)

\* text.split("\n").map(trim).filter(Boolean)[0] || fileName.replace(...)
firstNonEmpty(text, fileName) ==
  LET lines    == splitLines(text)
      trimmed  == [k \in 1..Len(lines) |-> trim(lines[k])]
      nonEmpty == SelectSeq(trimmed, LAMBDA l : l # <<>>)
  IN  IF nonEmpty # <<>> THEN nonEmpty[1] ELSE stripPdfExtension(fileName)

baseMeta(fileName) ==
  [title |-> Str(<<>>), authors |-> Arr(<<>>), keywords |-> Arr(<<>>),
   abstract |-> Str(<<>>), conclusion |-> Str(<<>>),
   fileName |-> Str(fileName), fileUrl |-> Null]

\* the heuristic record of generateMetadata
fallbackMeta(text, fileName) ==
  Spread(baseMeta(fileName),
         [title    |-> Str(sliceStr(firstNonEmpty(text, fileName), 180)),
          abstract |-> Str(sliceStr(text, 1200))])

\* the answer of the model spread over the defaults, its fields left as given
modelMeta_raw(meta, fileName) == Spread(baseMeta(fileName), meta)

\* the record built from the parsed answer of the model
modelMeta(meta, fileName) ==
  Spread(Spread(baseMeta(fileName), meta),
         [title      |-> Str(StringField(meta, "title")),
          authors    |-> ArrayField(meta, "authors"),
          keywords   |-> ArrayField(meta, "keywords"),
          abstract   |-> Str(StringField(meta, "abstract")),
          conclusion |-> Str(StringField(meta, "conclusion"))])

\* the try block of generateMetadata: fetch or r.json() rejects, JSON.parse
\* throws, reading meta.title of null throws; otherwise the record is returned
tryModel(text, fileName, reply) ==
  IF reply.kind \in {"fetch_rejects", "body_not_json"}
    THEN [threw |-> TRUE, value |-> baseMeta(fileName)]
    ELSE LET parsed == IF reply.kind = "no_completion"
                         THEN Parsed(Obj(EmptyObject))
                         ELSE reply.parsed
         IN  IF parsed.throws \/ parsed.value.t = "null"
               THEN [threw |-> TRUE, value |-> baseMeta(fileName)]
               ELSE [threw |-> FALSE,
                     value |-> modelMeta(IF parsed.value.t = "object"
                                           THEN parsed.value.v
                                           ELSE EmptyObject,
                                         fileName)]

\* variant without the catch clause: what the try block throws reaches the caller
generateMetadataCall_noCatch(text, fileName, keyEnv, reply) ==
  LET keySet  == EnvOr(keyEnv, <<>>) # <<>>
      attempt == tryModel(text, fileName, reply)
  IN  IF keySet /\ ~attempt.threw
        THEN [raised |-> FALSE, value |-> attempt.value, modelCalled |-> TRUE]
      ELSE IF keySet
        THEN [raised |-> TRUE, value |-> attempt.value, modelCalled |-> TRUE]
      ELSE [raised |-> FALSE, value |-> fallbackMeta(text, fileName),
            modelCalled |-> FALSE]

\* a call of generateMetadata(text, fileName) under the given OPENAI_API_KEY
\* setting and the given outcome of the model call: whether it raised, the
\* record it returned, whether the model was called
generateMetadataCall(text, fileName, keyEnv, reply) ==
  LET keySet  == EnvOr(keyEnv, <<>>) # <<>>
      attempt == tryModel(text, fileName, reply)
  IN  IF keySet /\ ~attempt.threw
        THEN [raised |-> FALSE, value |-> attempt.value, modelCalled |-> TRUE]
        ELSE [raised |-> FALSE, value |-> fallbackMeta(text, fileName),
              modelCalled |-> keySet]

\* the record generateMetadata(text, fileName) resolves to
generateMetadata(text, fileName, keyEnv, reply) ==
  generateMetadataCall(text, fileName, keyEnv, reply).value

\* the outcomes of the model call that a tick is run against
TickModelReplies ==
  { FetchRejects,
    NoCompletion,
    Completion(Parsed(Obj([title    |-> Str(<<" ","T"," ">>),
                           authors  |-> Arr(<< <<"A">> >>),
                           keywords |-> Str(<<"k">>),
                           fileName |-> Str(<<"e">>)]))) }

TickInit ==
  /\ envBatchSize \in BatchSizeEnvValues
  /\ envOpenAiKey \in {EnvUnset, EnvSet(<<"s","k">>)}
  /\ loc \in [Items -> {"inbox", "none"}]
  /\ inboxExists \in BOOLEAN
  /\ ~inboxExists => \A i \in Items : loc[i] = "none"
  /\ ticks = 0
  /\ pc = [p \in Procs |-> "idle"]
  /\ req = [p \in Procs |-> NoRequest]
  /\ token = [p \in Procs |-> Undefined]
  /\ listing = [p \in Procs |-> <<>>]
  /\ files = [p \in Procs |-> <<>>]
  /\ batch = [p \in Procs |-> <<>>]
  /\ idx = [p \in Procs |-> 0]
  /\ results = [p \in Procs |-> <<>>]
  /\ response = [p \in Procs |-> NoResponse]
  /\ calls = [p \in Procs |-> <<>>]

\* no tick is ever requested
TickIdle ==
  /\ envBatchSize = EnvUnset
  /\ envOpenAiKey = EnvUnset
  /\ loc = [i \in Items |-> "none"]
  /\ inboxExists = TRUE
  /\ ticks = MaxTicks
  /\ pc = [p \in Procs |-> "idle"]
  /\ req = [p \in Procs |-> NoRequest]
  /\ token = [p \in Procs |-> Undefined]
  /\ listing = [p \in Procs |-> <<>>]
  /\ files = [p \in Procs |-> <<>>]
  /\ batch = [p \in Procs |-> <<>>]
  /\ idx = [p \in Procs |-> 0]
  /\ results = [p \in Procs |-> <<>>]
  /\ response = [p \in Procs |-> NoResponse]
  /\ calls = [p \in Procs |-> <<>>]

\* ------------------------------------------------------------ tabular store
\* JavaScript undefined as a value of a request body
Undef == [t |-> "undefined", v |-> <<>>]

\* the body of an append request
Body(title, authors, keywords, summary, conclusion, pdfUrl) ==
  [title |-> title, authors |-> authors, keywords |-> keywords,
   summary |-> summary, conclusion |-> conclusion, pdfUrl |-> pdfUrl]

NoBody == Body(Undef, Undef, Undef, Undef, Undef, Undef)

\* an append handler that is not serving a request
ApIdle ==
  [pc |-> "idle", body |-> NoBody, fileBuf |-> <<>>, row |-> <<>>,
   response |-> NoResponse]

\* no fixed pattern: every call may be answered 2xx, refused or rejected
AnyFault == [fixed |-> FALSE, stuck |-> {}]

\* the store is empty: no tabular blob, no Notion page
StoreInit ==
  /\ blob = <<>>
  /\ pages = {}
  /\ exportFails = {}
  /\ faults = AnyFault

\* generateMetadata is not called on its own
MetaIdle == gm = <<>>

\* an upload that has not started
UpIdle ==
  [pc |-> "idle", total |-> 0, chunkSize |-> 1, start |-> 0, end |-> 0,
   puts |-> <<>>, result |-> "none"]

\* no upload is ever requested
UploadIdle == up = UpIdle

\* no compatibility route has been called
NoWatch == [route |-> "none", response |-> NoResponse]

WatchIdle == watch = NoWatch

\* no append is ever requested
AppendIdle ==
  /\ clock = 0
  /\ ap = [p \in Procs |-> ApIdle]
  /\ hist = <<>>

\* the cookies of a browser that has not visited the Microsoft OAuth routes
NoCookies ==
  [ms_oauth_state |-> <<>>, ms_access_token |-> <<>>, ms_refresh_token |-> <<>>,
   ms_scope |-> <<>>]

\* no Microsoft OAuth route has been called
MsIdle == [jar |-> NoCookies, route |-> "none"]

\* the sessions (sid cookies) that talk to the Notion routes
Sessions == {"A", "B"}

\* a session of the STORE that holds nothing: {}
NoSess == [state |-> <<>>, notion |-> <<>>]

\* no call of exportToNotion is running
NoExport == [pc |-> "idle", by |-> "none", token |-> <<>>, result |-> "none"]

\* notion.ts as loaded, with the given NOTION_TOKEN and NOTION_DB_ID: no token
\* of a login, no cached schema, empty sessions, no export; retrieved counts
\* the answers of databases.retrieve that carried the schema, exports the
\* calls of exportToNotion
NtLoaded(envToken, dbId) ==
  [NOTION_TOKEN |-> envToken, NOTION_DB_ID |-> dbId,
   lastNotionAccessToken |-> <<>>, dbCache |-> <<>>,
   sessions |-> [s \in Sessions |-> NoSess],
   calls |-> [p \in Procs |-> NoExport],
   retrieved |-> 0, exports |-> 0]

\* no Notion route is ever called
NtIdle == NtLoaded("", "")

AuthIdle ==
  /\ ms = MsIdle
  /\ nt = NtIdle

Init ==
  /\ TickInit
  /\ StoreInit
  /\ AppendIdle
  /\ MetaIdle
  /\ UploadIdle
  /\ WatchIdle
  /\ AuthIdle

\* ------------------------------------------------------------ tick handler
\* the credential carriers of a tick request: cookie and header, each absent,
\* empty or a token
TokenValues == {Undefined, <<"">>, <<"tok">>}

Requests == [cookie : TokenValues, header : TokenValues]

\* a credential lookup that falls back to a configured token
getAccessTokenFromCookies_fallback(r) ==
  JsOr(JsOr(r.cookie, r.header), <<"tok">>)

getAccessTokenFromCookies(r) ==
  LET at == JsOr(JsOr(r.cookie, r.header), Undefined)
  IN  JsOr(at, Undefined)

\* one entry of the log of calls a handler has issued
Call(op, id, result, status) ==
  [op |-> op, id |-> id, result |-> result, status |-> status]

\* the listing of handler p was answered 2xx
ListingOk(p) ==
  \E k \in 1..Len(calls[p]) : calls[p][k].op = "list" /\ calls[p][k].result = "ok"

\* handler p has issued a call op for item id with the given result
Issued(p, op, id, result) ==
  \E k \in 1..Len(calls[p]) :
    calls[p][k].op = op /\ calls[p][k].id = id /\ calls[p][k].result = result

\* outcomes of one remote call: answered 2xx, answered with an error status,
\* or fetch rejects; applied says whether the drive carried the request out
RemoteOutcomes ==
  {[result |-> "ok", status |-> 200, applied |-> TRUE]}
    \cup {[result |-> "status", status |-> s, applied |-> FALSE] : s \in ErrorStatuses}
    \cup {[result |-> "throw", status |-> 0, applied |-> a] : a \in BOOLEAN}

\* outcomes of a call that changes nothing on the drive
ReadOutcomes == {o \in RemoteOutcomes : o.result = "ok" \/ ~o.applied}

\* the filter with a case-sensitive comparison of the extension
isPdfFile_caseSensitive(it) ==
  it.file /\ endsWith(it.name, <<".","p","d","f">>)

\* the filter without the test of the file facet
isPdfFile_anyKind(it) ==
  endsWith(toLowerCase(it.name), <<".","p","d","f">>)

\* the filter of the listing: it.file && typeof it.name === "string" &&
\* it.name.toLowerCase().endsWith(".pdf")
isPdfFile(it) ==
  it.file /\ endsWith(toLowerCase(it.name), <<".","p","d","f">>)

filterFiles(value) == SelectSeq(value, LAMBDA i : isPdfFile(DriveItem(i)))

missingTokenResponse ==
  Json(401, [ok |-> FALSE, error |-> "missing_ms_access_token_cookie"])

listFailedResponse == Json(500, [ok |-> FALSE, error |-> "list_failed"])

\* a handler without the outer catch: the exception leaves the request unanswered
tickExceptionResponse_unanswered == NoResponse

tickExceptionResponse == Json(500, [ok |-> FALSE, error |-> "tick_exception"])

noPdfResponse ==
  Json(200, [ok |-> TRUE, processed |-> 0, found |-> 0,
             message |-> "Nenhum PDF na pasta de Entrada"])

\* a report that counts every candidate as processed
reportResponse_allProcessed(fs, rs) ==
  Json(200, [ok        |-> TRUE,
             found     |-> Len(fs),
             processed |-> Len(fs),
             success   |-> Len(SelectSeq(rs, LAMBDA r : r.ok)),
             results   |-> rs])

reportResponse(fs, rs) ==
  Json(200, [ok        |-> TRUE,
             found     |-> Len(fs),
             processed |-> Len(rs),
             success   |-> Len(SelectSeq(rs, LAMBDA r : r.ok)),
             results   |-> rs])

\* the entry pushed when the relocation is answered with an error status
moveFailedResult(item) ==
  [ok |-> FALSE, file |-> item.name, step |-> "move"]

\* a loop that goes on to the download whatever the relocation answered
moveOk_unchecked(move) == TRUE

\* the test "if (!move.ok)" of the loop, as the branch taken on move
moveOk(move) == move.result = "ok"

\* a download failure reported without the remote status
downloadFailedResult_noStatus(status) ==
  [ok |-> FALSE, error |-> "download_failed"]

\* results of processOnePdfByItem
downloadFailedResult(status) ==
  [ok |-> FALSE, error |-> "download_failed_" \o ToString(status)]

\* a catch that reports the message of the exception
exceptionResult_message == [ok |-> FALSE, error |-> "Nenhum motor de PDF"]

exceptionResult == [ok |-> FALSE, error |-> "exception"]

successResult(itemId, meta) ==
  [ok |-> TRUE, id |-> itemId, title |-> meta.title.v]

\* a loop that goes on to the next item without recording the result
PushResult_unrecorded(p, r) ==
  LET rs == results[p]
  IN  /\ results' = [results EXCEPT ![p] = rs]
      /\ IF idx[p] < Len(batch[p])
           THEN /\ idx' = [idx EXCEPT ![p] = @ + 1]
                /\ pc' = [pc EXCEPT ![p] = "move"]
                /\ UNCHANGED response
           ELSE /\ response' = [response EXCEPT ![p] = reportResponse(files[p], rs)]
                /\ pc' = [pc EXCEPT ![p] = "done"]
                /\ UNCHANGED idx

\* results.push(r), then the next iteration of the loop or, after the last
\* one, the aggregate report
PushResult(p, r) ==
  LET rs == Append(results[p], r)
  IN  /\ results' = [results EXCEPT ![p] = rs]
      /\ IF idx[p] < Len(batch[p])
           THEN /\ idx' = [idx EXCEPT ![p] = @ + 1]
                /\ pc' = [pc EXCEPT ![p] = "move"]
                /\ UNCHANGED response
           ELSE /\ response' = [response EXCEPT ![p] = reportResponse(files[p], rs)]
                /\ pc' = [pc EXCEPT ![p] = "done"]
                /\ UNCHANGED idx

\* a tick request arrives
tickArrive(p) ==
  /\ pc[p] = "idle"
  /\ ticks < MaxTicks
  /\ ticks' = ticks + 1
  /\ \E r \in Requests : req' = [req EXCEPT ![p] = r]
  /\ pc' = [pc EXCEPT ![p] = "start"]
  /\ UNCHANGED <<storeVars, appendVars, metaVars, uploadVars, watchVars,
               authVars>>
  /\ UNCHANGED <<envBatchSize, envOpenAiKey, loc, inboxExists, token, listing,
                 files, batch, idx, results, response, calls>>

\* the credential check
tickStart(p) ==
  /\ pc[p] = "start"
  /\ LET tk == getAccessTokenFromCookies(req[p])
     IN  /\ token' = [token EXCEPT ![p] = tk]
         /\ IF Falsy(tk)
              THEN /\ response' = [response EXCEPT ![p] = missingTokenResponse]
                   /\ pc' = [pc EXCEPT ![p] = "done"]
              ELSE /\ pc' = [pc EXCEPT ![p] = "list"]
                   /\ UNCHANGED response
  /\ req' = [req EXCEPT ![p] = NoRequest]
  /\ UNCHANGED <<storeVars, appendVars, metaVars, uploadVars, watchVars,
               authVars>>
  /\ UNCHANGED <<envBatchSize, envOpenAiKey, loc, inboxExists, ticks, listing,
                 files, batch, idx, results, calls>>

\* outcomes of the children request: a folder that does not exist is never
\* answered 2xx
ListOutcomes ==
  IF ~inboxExists THEN {o \in ReadOutcomes : o.result # "ok"}
  ELSE IF faults.fixed THEN {o \in ReadOutcomes : o.result = "ok"}
  ELSE ReadOutcomes

\* outcomes of the PATCH that relocates item i
MoveOutcomes(i) ==
  IF ~faults.fixed THEN RemoteOutcomes
  ELSE IF i \in faults.stuck THEN {o \in RemoteOutcomes : o.result = "status"}
  ELSE {o \in RemoteOutcomes : o.result = "ok"}

\* the listing returns: filter, early return, slice, entry of the loop
tickList(p) ==
  /\ pc[p] = "list"
  /\ \E o \in ListOutcomes :
       /\ calls' = [calls EXCEPT ![p] = Append(@, Call("list", 0, o.result, o.status))]
       /\ IF o.result = "throw"
            THEN /\ response' = [response EXCEPT ![p] = tickExceptionResponse]
                 /\ pc' = [pc EXCEPT ![p] = "done"]
                 /\ UNCHANGED <<listing, files, batch, idx>>
          ELSE IF o.result = "status"
            THEN /\ response' = [response EXCEPT ![p] = listFailedResponse]
                 /\ pc' = [pc EXCEPT ![p] = "done"]
                 /\ UNCHANGED <<listing, files, batch, idx>>
          ELSE LET value == Children(ONEDRIVE_ENTRADA_PATH)
                   fs    == filterFiles(value)
                   b     == slice0(fs, BATCH_SIZE)
               IN  /\ listing' = [listing EXCEPT ![p] = value]
                   /\ files' = [files EXCEPT ![p] = fs]
                   /\ IF fs = <<>>
                        THEN /\ response' = [response EXCEPT ![p] = noPdfResponse]
                             /\ pc' = [pc EXCEPT ![p] = "done"]
                             /\ UNCHANGED <<batch, idx>>
                      ELSE IF b = <<>>
                        THEN /\ response' = [response EXCEPT ![p] = reportResponse(fs, <<>>)]
                             /\ pc' = [pc EXCEPT ![p] = "done"]
                             /\ batch' = [batch EXCEPT ![p] = b]
                             /\ UNCHANGED idx
                        ELSE /\ batch' = [batch EXCEPT ![p] = b]
                             /\ idx' = [idx EXCEPT ![p] = 1]
                             /\ pc' = [pc EXCEPT ![p] = "move"]
                             /\ UNCHANGED response
  /\ UNCHANGED <<storeVars, appendVars, metaVars, uploadVars, watchVars,
               authVars>>
  /\ UNCHANGED <<envBatchSize, envOpenAiKey, loc, inboxExists, ticks, req,
                 token, results>>

\* a loop that asks again for a relocation answered with an error status
tickMove_retry(p) ==
  /\ pc[p] = "move"
  /\ LET item == DriveItem(batch[p][idx[p]])
     IN  \E move \in MoveOutcomes(item.id) :
           /\ calls' = [calls EXCEPT ![p] =
                          Append(@, Call("move", item.id, move.result, move.status))]
           /\ loc' = IF move.applied
                       THEN [loc EXCEPT ![item.id] = ONEDRIVE_PROCESSADOS_PATH]
                       ELSE loc
           /\ IF move.result = "throw"
                THEN /\ response' = [response EXCEPT ![p] = tickExceptionResponse]
                     /\ pc' = [pc EXCEPT ![p] = "done"]
                     /\ UNCHANGED <<results, idx>>
              ELSE IF ~moveOk(move)
                THEN IF Issued(p, "move", item.id, "status")
                       THEN PushResult(p, moveFailedResult(item))
                       ELSE UNCHANGED <<pc, results, idx, response>>
                ELSE /\ pc' = [pc EXCEPT ![p] = "download"]
                     /\ UNCHANGED <<results, idx, response>>
  /\ UNCHANGED <<storeVars, appendVars, metaVars, uploadVars, watchVars,
               authVars>>
  /\ UNCHANGED <<envBatchSize, envOpenAiKey, inboxExists, ticks, req, token,
                 listing, files, batch>>

\* moveItemTo(token, item.id, ONEDRIVE_PROCESSADOS_PATH, item.name) returns
tickMove(p) ==
  /\ pc[p] = "move"
  /\ LET item == DriveItem(batch[p][idx[p]])
     IN  \E move \in MoveOutcomes(item.id) :
           /\ calls' = [calls EXCEPT ![p] =
                          Append(@, Call("move", item.id, move.result, move.status))]
           /\ loc' = IF move.applied
                       THEN [loc EXCEPT ![item.id] = ONEDRIVE_PROCESSADOS_PATH]
                       ELSE loc
           /\ IF move.result = "throw"
                THEN /\ response' = [response EXCEPT ![p] = tickExceptionResponse]
                     /\ pc' = [pc EXCEPT ![p] = "done"]
                     /\ UNCHANGED <<results, idx>>
              ELSE IF ~moveOk(move)
                THEN PushResult(p, moveFailedResult(item))
                ELSE /\ pc' = [pc EXCEPT ![p] = "download"]
                     /\ UNCHANGED <<results, idx, response>>
  /\ UNCHANGED <<storeVars, appendVars, metaVars, uploadVars, watchVars,
               authVars>>
  /\ UNCHANGED <<envBatchSize, envOpenAiKey, inboxExists, ticks, req, token,
                 listing, files, batch>>

\* processOnePdfByItem: graphDownload returns
tickDownload(p) ==
  /\ pc[p] = "download"
  /\ LET item == DriveItem(batch[p][idx[p]])
     IN  \E dl \in ReadOutcomes :
           /\ calls' = [calls EXCEPT ![p] =
                          Append(@, Call("download", item.id, dl.result, dl.status))]
           /\ IF dl.result = "throw"
                THEN PushResult(p, Spread(exceptionResult, [file |-> item.name]))
              ELSE IF dl.result = "status"
                THEN PushResult(p, Spread(downloadFailedResult(dl.status),
                                          [file |-> item.name]))
                ELSE /\ pc' = [pc EXCEPT ![p] = "process"]
                     /\ UNCHANGED <<results, idx, response>>
  /\ UNCHANGED <<storeVars, appendVars, metaVars, uploadVars, watchVars,
               authVars>>
  /\ UNCHANGED <<envBatchSize, envOpenAiKey, loc, inboxExists, ticks, req,
                 token, listing, files, batch>>

\* saveToNotion(meta): logs the title; the Notion database is not touched
saveToNotion(meta, ps) == ps

\* saveToExcel(meta): logs the title; the workbook is not touched
saveToExcel(meta, b) == b

\* how a call of an exporter ends: its promise resolves or rejects
ExportOutcomes == {"ok", "throw"}

\* the outcome of a call of the given exporter
exportOutcome(exporter) == IF exporter \in exportFails THEN "throw" ELSE "ok"

\* an export awaited without its catch: a rejection reaches the caller
exportCaught_rethrow(outcome) == outcome

\* await save(meta).catch(() => null): a rejection resolves to null
exportCaught(outcome) == IF outcome = "throw" THEN "ok" ELSE outcome

\* processOnePdfByItem: extraction, generateMetadata, the two exports
tickProcess(p) ==
  /\ pc[p] = "process"
  /\ LET item     == DriveItem(batch[p][idx[p]])
         keySet   == EnvOr(envOpenAiKey, <<>>) # <<>>
         extract  == Call("extract", item.id, "ok", 0)
     IN  \/ /\ calls' = [calls EXCEPT ![p] =
                           Append(@, Call("extract", item.id, "throw", 0))]
            /\ PushResult(p, Spread(exceptionResult, [file |-> item.name]))
            /\ UNCHANGED storeVars
         \/ \E reply \in IF keySet THEN TickModelReplies ELSE {FetchRejects} :
              LET notion  == exportOutcome("notion")
                  excel   == exportOutcome("excel")
                  meta    == generateMetadata(ItemText(item.id), item.name,
                                              envOpenAiKey, reply)
                  model   == IF keySet
                               THEN <<Call("model", item.id, reply.kind, 0)>>
                               ELSE <<>>
                  exports == IF exportCaught(notion) = "throw"
                               THEN <<Call("notion", item.id, notion, 0)>>
                               ELSE <<Call("notion", item.id, notion, 0),
                                      Call("excel", item.id, excel, 0)>>
                  thrown  == \/ exportCaught(notion) = "throw"
                             \/ exportCaught(excel) = "throw"
              IN  /\ calls' = [calls EXCEPT ![p] =
                                 @ \o <<extract>> \o model \o exports]
                  /\ PushResult(p, Spread(IF thrown
                                            THEN exceptionResult
                                            ELSE successResult(item.id, meta),
                                          [file |-> item.name]))
                  /\ pages' = IF notion = "ok"
                                THEN saveToNotion(meta, pages) ELSE pages
                  /\ blob' = IF exportCaught(notion) # "throw" /\ excel = "ok"
                               THEN saveToExcel(meta, blob) ELSE blob
                  /\ UNCHANGED <<exportFails, faults>>
  /\ UNCHANGED <<appendVars, metaVars, uploadVars, watchVars,
               authVars>>
  /\ UNCHANGED <<envBatchSize, envOpenAiKey, loc, inboxExists, ticks, req,
                 token, listing, files, batch>>

\* the response has been sent; the handler's locals are gone
tickEnd(p) ==
  /\ pc[p] = "done"
  /\ pc' = [pc EXCEPT ![p] = "idle"]
  /\ token' = [token EXCEPT ![p] = Undefined]
  /\ listing' = [listing EXCEPT ![p] = <<>>]
  /\ files' = [files EXCEPT ![p] = <<>>]
  /\ batch' = [batch EXCEPT ![p] = <<>>]
  /\ idx' = [idx EXCEPT ![p] = 0]
  /\ results' = [results EXCEPT ![p] = <<>>]
  /\ response' = [response EXCEPT ![p] = NoResponse]
  /\ calls' = [calls EXCEPT ![p] = <<>>]
  /\ UNCHANGED <<storeVars, appendVars, metaVars, uploadVars, watchVars,
               authVars>>
  /\ UNCHANGED <<envBatchSize, envOpenAiKey, loc, inboxExists, ticks, req>>

TickStep(p) ==
  \/ tickArrive(p)
  \/ tickStart(p)
  \/ tickList(p)
  \/ tickMove(p)
  \/ tickDownload(p)
  \/ tickProcess(p)
  \/ tickEnd(p)

\* ticks served one after another
Next == \E p \in SeqProcs : TickStep(p)

Spec == Init /\ [][Next]_vars

\* the steps of a handler that end an await: the remote call returns or throws
TickProgress(p) ==
  \/ tickStart(p)
  \/ tickList(p)
  \/ tickMove(p)
  \/ tickDownload(p)
  \/ tickProcess(p)

\* ticks served one after another, every remote call returning or throwing
SpecLive ==
  Init /\ [][Next]_vars /\ \A p \in SeqProcs : WF_vars(TickProgress(p))

\* ------------------------------------------------------------ excel append
\* requests served by POST /excel/append
MaxAppends == 3

\* latest value of the clock
MaxClock == 1

\* the header row of createInitialWorkbookBuffer
HeaderRow ==
  << <<"T","i","t","l","e">>, <<"A","u","t","h","o","r","s">>,
     <<"K","e","y","w","o","r","d","s">>, <<"S","u","m","m","a","r","y">>,
     <<"C","o","n","c","l","u","s","i","o","n">>, <<"P","d","f","U","r","l">>,
     <<"C","r","e","a","t","e","d","A","t">> >>

\* XLSX.write(wb, {bookType: "xlsx", type: "buffer"}): the bytes of the file,
\* held as the workbook they encode
XLSXwrite(wb) == [bookType |-> "xlsx", wb |-> wb]

\* XLSX.read(buf, {type: "buffer"})
XLSXread(buf) == buf.wb

\* XLSX.utils.book_new()
book_new == [SheetNames |-> <<>>, Sheets |-> [n \in {} |-> <<>>]]

\* XLSX.utils.aoa_to_sheet(rows): a sheet is held as its rows
aoa_to_sheet(rows) == rows

\* XLSX.utils.book_append_sheet(wb, ws, name)
book_append_sheet(wb, ws, name) ==
  [SheetNames |-> Append(wb.SheetNames, name),
   Sheets |-> [n \in DOMAIN wb.Sheets \cup {name} |->
                 IF n = name THEN ws ELSE wb.Sheets[n]]]

\* XLSX.utils.sheet_add_aoa(ws, rows, {origin: -1}): after the last row
sheet_add_aoa(ws, rows) == ws \o rows

createInitialWorkbookBuffer ==
  XLSXwrite(book_append_sheet(book_new, aoa_to_sheet(<<HeaderRow>>), "Sheet1"))

\* variant that leaves the sheet alone when it already holds the row
appendRowToWorkbookBuffer_dedup(existing, row) ==
  LET wb        == XLSXread(existing)
      sheetName == IF wb.SheetNames # <<>> THEN wb.SheetNames[1] ELSE "Sheet1"
      ws        == IF sheetName \in DOMAIN wb.Sheets
                     THEN wb.Sheets[sheetName] ELSE aoa_to_sheet(<<>>)
      added     == IF \E k \in 1..Len(ws) : ws[k] = row
                     THEN ws ELSE sheet_add_aoa(ws, <<row>>)
  IN  XLSXwrite([SheetNames |-> wb.SheetNames,
                 Sheets |-> [n \in DOMAIN wb.Sheets \cup {sheetName} |->
                               IF n = sheetName THEN added ELSE wb.Sheets[n]]])

appendRowToWorkbookBuffer(existing, row) ==
  LET wb        == XLSXread(existing)
      sheetName == IF wb.SheetNames # <<>> THEN wb.SheetNames[1] ELSE "Sheet1"
      ws        == IF sheetName \in DOMAIN wb.Sheets
                     THEN wb.Sheets[sheetName] ELSE aoa_to_sheet(<<>>)
      added     == sheet_add_aoa(ws, <<row>>)
  IN  XLSXwrite([SheetNames |-> wb.SheetNames,
                 Sheets |-> [n \in DOMAIN wb.Sheets \cup {sheetName} |->
                               IF n = sheetName THEN added ELSE wb.Sheets[n]]])

\* a PUT that adds the last row of the content to the stored file
putContent_merge(current, content) ==
  IF current = <<>> THEN <<content>>
  ELSE LET rows == XLSXread(content).Sheets["Sheet1"]
       IN  <<appendRowToWorkbookBuffer(current[1], rows[Len(rows)])>>

\* PUT /me/drive/root:/<path>:/content: the file becomes the content sent
putContent(current, content) == <<content>>

\* the rows of the first sheet of the stored file
SheetRows(b) == XLSXread(b[1]).Sheets[XLSXread(b[1]).SheetNames[1]]

\* !x for a value of the request body
ValueFalsy(x) == x.t \in {"undefined", "null"} \/ x = Str(<<>>)

\* String(x || "")
StringOr(x) ==
  IF ValueFalsy(x) THEN <<>>
  ELSE IF x.t = "string" THEN x.v
  ELSE IF x.t = "array" THEN joinComma(x.v)
  ELSE <<"[","o","b","j","e","c","t"," ","O","b","j","e","c","t","]">>

RECURSIVE joinSemi(_)
\* a.join("; ")
joinSemi(a) ==
  IF a = <<>> THEN <<>>
  ELSE IF Len(a) = 1 THEN a[1]
  ELSE a[1] \o <<";"," ">> \o joinSemi(Tail(a))

\* Array.isArray(x) ? x.join("; ") : String(x || "")
ListCell(x) == IF x.t = "array" THEN joinSemi(x.v) ELSE StringOr(x)

\* new Date(t).toISOString(): one text per instant, in the order of time
toISOString(t) == <<"T", Digits[t + 1]>>

\* the row built from the request body at the instant t
buildRow(body, t) ==
  << StringOr(body.title), ListCell(body.authors), ListCell(body.keywords),
     StringOr(body.summary), StringOr(body.conclusion), StringOr(body.pdfUrl),
     toISOString(t) >>

AppendBodies ==
  { NoBody,
    Body(Str(<<"A">>), Arr(<< <<"X">>, <<"Y">> >>), Str(<<"k">>),
         Str(<<"s">>), Undef, Undef),
    Body(Str(<<"B">>), Str(<<"X">>), Arr(<<>>), Undef, Str(<<"c">>),
         Str(<<"u">>)) }

titleMissingResponse == Json(400, [ok |-> FALSE, error |-> "title_missing"])

appendFailedResponse == Json(500, [ok |-> FALSE, error |-> "excel_append_failed"])

appendOkResponse ==
  Json(200, [ok |-> TRUE, excelPath |-> "PaperMind/papermind.xlsx",
             saved |-> "item"])

\* the handler answers: its request joins the answered ones, a successful
\* one with the workbook it read and the row it built
appendRespond(p, r) ==
  /\ ap' = [ap EXCEPT ![p] = [@ EXCEPT !.pc = "done", !.response = r]]
  /\ hist' = Append(hist, IF r.status = 200
                             THEN [status |-> 200, read |-> ap[p].fileBuf,
                                   row |-> ap[p].row]
                             ELSE [status |-> r.status, read |-> <<>>,
                                   row |-> <<>>])

\* const nowIso = new Date().toISOString(); const row = [...]
appendBuildRow(p, buf) ==
  \E t \in clock..MaxClock :
    /\ clock' = t
    /\ ap' = [ap EXCEPT ![p] = [@ EXCEPT !.pc = "put", !.fileBuf = <<buf>>,
                                         !.row = buildRow(ap[p].body, t)]]

\* a request arrives: body destructured, title checked, client built
appendStart(p) ==
  /\ ap[p].pc = "idle"
  /\ Len(hist) + Cardinality({q \in Procs : ap[q].pc # "idle"}) < MaxAppends
  /\ \E body \in AppendBodies, hasToken \in BOOLEAN :
       IF ValueFalsy(body.title)
         THEN /\ ap' = [ap EXCEPT ![p] = [@ EXCEPT !.pc = "done", !.body = body,
                                           !.response = titleMissingResponse]]
              /\ hist' = Append(hist, [status |-> 400, read |-> <<>>,
                                       row |-> <<>>])
       ELSE IF ~hasToken
         THEN /\ ap' = [ap EXCEPT ![p] = [@ EXCEPT !.pc = "done", !.body = body,
                                           !.response = appendFailedResponse]]
              /\ hist' = Append(hist, [status |-> 500, read |-> <<>>,
                                       row |-> <<>>])
       ELSE /\ ap' = [ap EXCEPT ![p] = [@ EXCEPT !.pc = "ensure", !.body = body]]
            /\ UNCHANGED hist
  /\ UNCHANGED <<tickVars, metaVars, uploadVars, watchVars, authVars, storeVars, clock>>

\* await ensureFolder(client, folder)
appendEnsure(p) ==
  /\ ap[p].pc = "ensure"
  /\ \/ /\ ap' = [ap EXCEPT ![p] = [@ EXCEPT !.pc = "download"]]
        /\ UNCHANGED hist
     \/ appendRespond(p, appendFailedResponse)
  /\ UNCHANGED <<tickVars, metaVars, uploadVars, watchVars, authVars, storeVars, clock>>

\* let fileBuf = await downloadAsBuffer(client, excelPath)
appendDownload(p) ==
  /\ ap[p].pc = "download"
  /\ \/ /\ blob # <<>>
        /\ appendBuildRow(p, blob[1])
        /\ UNCHANGED hist
     \/ /\ blob = <<>>
        /\ ap' = [ap EXCEPT ![p] = [@ EXCEPT !.pc = "create",
                                             !.fileBuf = <<createInitialWorkbookBuffer>>]]
        /\ UNCHANGED <<hist, clock>>
     \/ /\ appendRespond(p, appendFailedResponse)
        /\ UNCHANGED clock
  /\ UNCHANGED <<tickVars, metaVars, uploadVars, watchVars, authVars, storeVars>>

\* the PUT of the initial workbook
appendCreate(p) ==
  /\ ap[p].pc = "create"
  /\ \/ /\ blob' = putContent(blob, ap[p].fileBuf[1])
        /\ appendBuildRow(p, ap[p].fileBuf[1])
        /\ UNCHANGED hist
     \/ \E applied \in BOOLEAN :
          /\ blob' = IF applied THEN putContent(blob, ap[p].fileBuf[1]) ELSE blob
          /\ appendRespond(p, appendFailedResponse)
          /\ UNCHANGED clock
  /\ UNCHANGED <<tickVars, metaVars, uploadVars, watchVars, authVars, pages, exportFails, faults>>

\* const updated = appendRowToWorkbookBuffer(fileBuf, row), and its PUT
appendPut(p) ==
  /\ ap[p].pc = "put"
  /\ LET updated == appendRowToWorkbookBuffer(ap[p].fileBuf[1], ap[p].row)
     IN  \/ /\ blob' = putContent(blob, updated)
            /\ appendRespond(p, appendOkResponse)
         \/ \E applied \in BOOLEAN :
              /\ blob' = IF applied THEN putContent(blob, updated) ELSE blob
              /\ appendRespond(p, appendFailedResponse)
  /\ UNCHANGED <<tickVars, metaVars, uploadVars, watchVars, authVars, pages, exportFails, faults, clock>>

\* the response has been sent; the handler's locals are gone
appendEnd(p) ==
  /\ ap[p].pc = "done"
  /\ ap' = [ap EXCEPT ![p] = ApIdle]
  /\ UNCHANGED <<tickVars, metaVars, uploadVars, watchVars, authVars, storeVars, clock, hist>>

AppendStep(p) ==
  \/ appendStart(p)
  \/ appendEnsure(p)
  \/ appendDownload(p)
  \/ appendCreate(p)
  \/ appendPut(p)
  \/ appendEnd(p)

AppendInit ==
  /\ TickIdle
  /\ StoreInit
  /\ AppendIdle
  /\ MetaIdle
  /\ UploadIdle
  /\ WatchIdle
  /\ AuthIdle

\* appends one after the other
AppendNext == \E p \in SeqProcs : AppendStep(p)

SpecAppend == AppendInit /\ [][AppendNext]_vars

AppendRaceInit ==
  /\ TickIdle
  /\ blob \in {<<>>, <<createInitialWorkbookBuffer>>}
  /\ pages = {}
  /\ exportFails = {}
  /\ faults = AnyFault
  /\ AppendIdle
  /\ MetaIdle
  /\ UploadIdle
  /\ WatchIdle
  /\ AuthIdle

\* appends of concurrent requests
AppendRaceNext == \E p \in Procs : AppendStep(p)

SpecAppendRace == AppendRaceInit /\ [][AppendRaceNext]_vars

\* ----------------------------------------------------------- metadata calls
\* n times the character c
Rep(c, n) == [k \in 1..n |-> c]

\* Texts handed to generateMetadata, each with what is expected of it: whether
\* it has a non-blank line, its first non-blank line as it stands cut to 180
\* characters, that line without the white space at its ends cut to 180
\* characters, and the first 1200 characters of the text.
MetaCases ==
  << [text |-> <<>>, blank |-> TRUE,
      line |-> <<>>, stripped |-> <<>>, head |-> <<>>],
     [text |-> <<"T","3">>, blank |-> FALSE,
      line |-> <<"T","3">>, stripped |-> <<"T","3">>, head |-> <<"T","3">>],
     [text |-> <<"T","1"," ","\n","x">>, blank |-> FALSE,
      line |-> <<"T","1"," ">>, stripped |-> <<"T","1">>,
      head |-> <<"T","1"," ","\n","x">>],
     [text |-> <<" ","\n"," ","T","\n","z">>, blank |-> FALSE,
      line |-> <<" ","T">>, stripped |-> <<"T">>,
      head |-> <<" ","\n"," ","T","\n","z">>],
     [text |-> <<" ","\n">>, blank |-> TRUE,
      line |-> <<>>, stripped |-> <<>>, head |-> <<" ","\n">>],
     [text |-> Rep("L", 181), blank |-> FALSE,
      line |-> Rep("L", 180), stripped |-> Rep("L", 180),
      head |-> Rep("L", 181)],
     [text |-> Rep("a", 1201), blank |-> FALSE,
      line |-> Rep("a", 180), stripped |-> Rep("a", 180),
      head |-> Rep("a", 1200)] >>

\* File names handed to generateMetadata, each with the name left once a
\* final ".pdf" in any letter case is removed
NameCases ==
  << [name |-> <<"a",".","p","d","f">>, stem |-> <<"a">>],
     [name |-> <<"B",".","P","D","F">>, stem |-> <<"B">>],
     [name |-> <<"n",".","t","x","t">>, stem |-> <<"n",".","t","x","t">>] >>

\* the settings of OPENAI_API_KEY
MetaKeys == {EnvUnset, EnvSet(<<>>), EnvSet(<<"s","k">>)}

\* the outcomes of the model call
MetaReplies ==
  { FetchRejects,
    BodyNotJson,
    NoCompletion,
    Completion(ParseThrows),
    Completion(Parsed(Null)),
    Completion(Parsed(Arr(<<>>))),
    Completion(Parsed(Str(<<>>))),
    Completion(Parsed(Obj([title    |-> Obj(EmptyObject),
                           abstract |-> Null]))),
    Completion(Parsed(Obj([title    |-> Str(<<" ","T"," ">>),
                           authors  |-> Arr(<< <<"A">> >>),
                           keywords |-> Str(<<"k">>),
                           fileName |-> Str(<<"e">>)]))) }

\* generateMetadata is called and returns
metaCall ==
  /\ gm = <<>>
  /\ \E c \in 1..Len(MetaCases), n \in 1..Len(NameCases),
        keyEnv \in MetaKeys, reply \in MetaReplies :
       gm' = << [case |-> c, name |-> n, keyEnv |-> keyEnv, reply |-> reply,
                 out |-> generateMetadataCall(MetaCases[c].text,
                                              NameCases[n].name,
                                              keyEnv, reply)] >>
  /\ UNCHANGED <<tickVars, storeVars, appendVars, uploadVars, watchVars,
               authVars>>

\* the caller has taken the outcome
metaReturn ==
  /\ gm # <<>>
  /\ gm' = <<>>
  /\ UNCHANGED <<tickVars, storeVars, appendVars, uploadVars, watchVars,
               authVars>>

MetaInit ==
  /\ TickIdle
  /\ StoreInit
  /\ AppendIdle
  /\ MetaIdle
  /\ UploadIdle
  /\ WatchIdle
  /\ AuthIdle

MetaNext == metaCall \/ metaReturn

SpecMeta == MetaInit /\ [][MetaNext]_vars

\* ------------------------------------------------------------ chunked upload
\* largest length of the uploaded buffer
MaxTotal == 11

\* largest chunk size
MaxChunk == 4

RECURSIVE DecimalString(_)
\* String(n) for an integer n >= 0
DecimalString(n) ==
  IF n < 10 THEN <<Digits[n + 1]>>
  ELSE DecimalString(n \div 10) \o <<Digits[(n % 10) + 1]>>

\* `bytes ${start}-${end}/${total}`
contentRange(start, end, total) ==
  <<"b","y","t","e","s"," ">> \o DecimalString(start) \o <<"-">>
    \o DecimalString(end) \o <<"/">> \o DecimalString(total)

\* a buffer of the given length
UploadBuffer(total) == [k \in 1..total |-> k % 256]

\* buffer.subarray(a, b) for 0 <= a: the end is clamped to the length
subarray(buf, a, b) == SubSeq(buf, a + 1, IF b > Len(buf) THEN Len(buf) ELSE b)

\* variant that leaves the end of the window where it is
clipEnd_none(end, total) == end

\* if (end >= total) end = total - 1
clipEnd(end, total) == IF end >= total THEN total - 1 ELSE end

\* statuses the upload URL answers a PUT with
PutStatuses == {200, 201, 202, 500}

\* variant that goes on to the next chunk after a failed PUT
putOutcome_skip(status) ==
  IF status \in {200, 201} THEN "item" ELSE "continue"

\* what the loop does with the status of a PUT: return res.json(), throw, or
\* go on to the next chunk
putOutcome(status) ==
  IF status \in {200, 201} THEN "item"
  ELSE IF status # 202 THEN "throw"
  ELSE "continue"

\* createUploadSession is posted: the loop starts, or the post throws
uploadStart ==
  /\ up.pc = "idle"
  /\ \E total \in 0..MaxTotal, chunkSize \in 1..MaxChunk :
       \/ up' = [pc |-> "loop", total |-> total, chunkSize |-> chunkSize,
                 start |-> 0, end |-> chunkSize - 1, puts |-> <<>>,
                 result |-> "none"]
       \/ up' = [pc |-> "done", total |-> total, chunkSize |-> chunkSize,
                 start |-> 0, end |-> 0, puts |-> <<>>, result |-> "throw"]
  /\ UNCHANGED <<tickVars, storeVars, appendVars, metaVars, watchVars, authVars>>

\* one turn of the loop: the PUT of a chunk and the reading of its status
uploadPut ==
  /\ up.pc = "loop"
  /\ up.start < up.total
  /\ LET end           == clipEnd(up.end, up.total)
         contentLength == end - up.start + 1
         chunk         == subarray(UploadBuffer(up.total), up.start, end + 1)
     IN  \E status \in PutStatuses :
           LET put == [start |-> up.start, end |-> end, status |-> status,
                       headers |->
                         [ContentLength |-> DecimalString(contentLength),
                          ContentRange |-> contentRange(up.start, end, up.total)],
                       body |-> chunk]
           IN  up' = IF putOutcome(status) # "continue"
                       THEN [up EXCEPT !.pc = "done", !.end = end,
                                       !.puts = Append(@, put),
                                       !.result = putOutcome(status)]
                     ELSE [up EXCEPT !.start = end + 1,
                                     !.end = end + 1 + up.chunkSize - 1,
                                     !.puts = Append(@, put)]
  /\ UNCHANGED <<tickVars, storeVars, appendVars, metaVars, watchVars, authVars>>

\* the loop condition fails: the function ends without a return value
uploadExit ==
  /\ up.pc = "loop"
  /\ up.start >= up.total
  /\ up' = [up EXCEPT !.pc = "done", !.result = "undefined"]
  /\ UNCHANGED <<tickVars, storeVars, appendVars, metaVars, watchVars, authVars>>

\* the caller has taken the outcome
uploadEnd ==
  /\ up.pc = "done"
  /\ up' = UpIdle
  /\ UNCHANGED <<tickVars, storeVars, appendVars, metaVars, watchVars, authVars>>

UploadInit ==
  /\ TickIdle
  /\ StoreInit
  /\ AppendIdle
  /\ MetaIdle
  /\ UploadIdle
  /\ WatchIdle
  /\ AuthIdle

UploadNext == uploadStart \/ uploadPut \/ uploadExit \/ uploadEnd

SpecUpload == UploadInit /\ [][UploadNext]_vars

\* --------------------------------------------------------- failing exports
\* default batch size, an inbox that holds a.pdf and B.PDF, exporters that may
\* be failing
ExportInit ==
  /\ TickInit
  /\ envBatchSize = EnvUnset
  /\ inboxExists
  /\ loc = [i \in Items |-> IF i \in {1, 3} THEN ONEDRIVE_ENTRADA_PATH ELSE "none"]
  /\ blob = <<>>
  /\ pages = {}
  /\ exportFails \in SUBSET {"notion", "excel"}
  /\ faults = AnyFault
  /\ AppendIdle
  /\ MetaIdle
  /\ UploadIdle
  /\ WatchIdle
  /\ AuthIdle

\* ticks served one after another while exporters fail
SpecExport == ExportInit /\ [][Next]_vars

\* ----------------------------------------------------------- overlapping ticks
\* default configuration, an inbox that holds a.pdf
OverlapInit ==
  /\ TickInit
  /\ envBatchSize = EnvUnset
  /\ envOpenAiKey = EnvUnset
  /\ inboxExists
  /\ loc = [i \in Items |-> IF i = 1 THEN ONEDRIVE_ENTRADA_PATH ELSE "none"]
  /\ StoreInit
  /\ AppendIdle
  /\ MetaIdle
  /\ UploadIdle
  /\ WatchIdle
  /\ AuthIdle

\* ticks served by handlers that run at the same time
OverlapNext == \E p \in Procs : TickStep(p)

SpecOverlap == OverlapInit /\ [][OverlapNext]_vars

\* ------------------------------------------------------------ repeated ticks
\* a tick request that carries a credential arrives; requests keep arriving
tickArriveAgain(p) ==
  /\ pc[p] = "idle"
  /\ \E r \in {x \in Requests : ~Falsy(getAccessTokenFromCookies(x))} :
       req' = [req EXCEPT ![p] = r]
  /\ pc' = [pc EXCEPT ![p] = "start"]
  /\ UNCHANGED <<storeVars, appendVars, metaVars, uploadVars, watchVars,
               authVars>>
  /\ UNCHANGED <<envBatchSize, envOpenAiKey, loc, inboxExists, ticks, token,
                 listing, files, batch, idx, results, response, calls>>

\* every item of the catalogue is in the inbox of a drive that answers every
\* request 2xx except the relocations of the items in stuck; a batch size of
\* 2 (the default) or 1
RepeatInit ==
  /\ TickInit
  /\ envBatchSize \in {EnvUnset, EnvSet(<<"1">>)}
  /\ envOpenAiKey = EnvUnset
  /\ inboxExists
  /\ loc = [i \in Items |-> ONEDRIVE_ENTRADA_PATH]
  /\ blob = <<>>
  /\ pages = {}
  /\ exportFails = {}
  /\ faults \in {[fixed |-> TRUE, stuck |-> S] : S \in SUBSET Items}
  /\ AppendIdle
  /\ MetaIdle
  /\ UploadIdle
  /\ WatchIdle
  /\ AuthIdle

RepeatStep(p) ==
  \/ tickArriveAgain(p)
  \/ tickStart(p)
  \/ tickList(p)
  \/ tickMove(p)
  \/ tickDownload(p)
  \/ tickProcess(p)
  \/ tickEnd(p)

\* ticks served one after another, without end
RepeatNext == \E p \in SeqProcs : RepeatStep(p)

SpecRepeat ==
  RepeatInit /\ [][RepeatNext]_vars /\ \A p \in SeqProcs : WF_vars(RepeatStep(p))

\* ------------------------------------------------------ compatibility routes
watchStartResponse == Json(200, [ok |-> TRUE, mode |-> "serverless"])

\* a status that reports a loop as running
watchStatusResponse_running ==
  Json(200, [ok |-> TRUE, running |-> TRUE, mode |-> "serverless"])

watchStatusResponse ==
  Json(200, [ok |-> TRUE, running |-> FALSE, mode |-> "serverless"])

watchStopResponse ==
  Json(200, [ok |-> TRUE, stopped |-> TRUE, mode |-> "serverless"])

\* POST /watch/start
watchStart ==
  /\ watch' = [route |-> "start", response |-> watchStartResponse]
  /\ UNCHANGED <<tickVars, storeVars, appendVars, metaVars, uploadVars, authVars>>

\* GET /watch/status
watchStatus ==
  /\ watch' = [route |-> "status", response |-> watchStatusResponse]
  /\ UNCHANGED <<tickVars, storeVars, appendVars, metaVars, uploadVars, authVars>>

\* POST /watch/stop
watchStop ==
  /\ watch' = [route |-> "stop", response |-> watchStopResponse]
  /\ UNCHANGED <<tickVars, storeVars, appendVars, metaVars, uploadVars, authVars>>

\* the hook called when a Microsoft account is connected: return
autoStartOnMsConnect ==
  /\ watch' = [route |-> "autostart", response |-> NoResponse]
  /\ UNCHANGED <<tickVars, storeVars, appendVars, metaVars, uploadVars, authVars>>

\* default configuration, an inbox that holds a.pdf
WatchInit ==
  /\ TickInit
  /\ envBatchSize = EnvUnset
  /\ envOpenAiKey = EnvUnset
  /\ inboxExists
  /\ loc = [i \in Items |-> IF i = 1 THEN ONEDRIVE_ENTRADA_PATH ELSE "none"]
  /\ StoreInit
  /\ AppendIdle
  /\ MetaIdle
  /\ UploadIdle
  /\ WatchIdle
  /\ AuthIdle

\* calls of the compatibility routes between the steps of ticks
WatchNext ==
  \/ \E p \in SeqProcs : TickStep(p)
  \/ watchStart
  \/ watchStatus
  \/ watchStop
  \/ autoStartOnMsConnect

SpecWatch == WatchInit /\ [][WatchNext]_vars

\* ---------------------------------------------------------- Microsoft OAuth
\* the values newState() can return
MsStates == {"ms_1", "ms_2"}

\* String(v || "") of a query parameter or cookie that may be absent
QueryString(v) == IF v = <<>> THEN "" ELSE v[1]

\* json.field ?? ""
NullishOr(v) == IF v = <<>> THEN "" ELSE v[1]

\* no field of the token endpoint's JSON
NoTokens == [access_token |-> <<>>, refresh_token |-> <<>>, scope |-> <<>>]

\* how the POST to the token endpoint ends: fetch or r.json() rejects, or the
\* endpoint answers with r.ok and a JSON body
TokenReplies ==
  { [throws |-> TRUE, ok |-> FALSE, json |-> NoTokens],
    [throws |-> FALSE, ok |-> FALSE, json |-> NoTokens],
    [throws |-> FALSE, ok |-> TRUE, json |-> NoTokens],
    [throws |-> FALSE, ok |-> TRUE,
     json |-> [access_token |-> <<"at">>, refresh_token |-> <<"rt">>,
               scope |-> <<"sc">>]] }

\* the requests a browser can make to /callback, apart from its cookies
CallbackQueries ==
  [code : {<<>>, <<"">>, <<"c">>},
   state : {<<>>, <<"">>} \cup {<<x>> : x \in MsStates}]

\* a response: status, body, the cookies set with res.cookie and the names
\* cleared with res.clearCookie
Sent(status, body, cookies, cleared) ==
  [status |-> status, body |-> body, cookies |-> cookies, cleared |-> cleared]

\* a callback that accepts every state
stateValid_unchecked(state, stateCookie) == TRUE

\* the negation of: !state || !stateCookie || state !== stateCookie
stateValid(state, stateCookie) ==
  state # "" /\ stateCookie # "" /\ state = stateCookie

\* msAuthRouter.get("/callback"): the response to a request with the given
\* query and state cookie when the token endpoint answers reply
msCallbackResponse(query, cookie, reply) ==
  LET code        == QueryString(query.code)
      state       == QueryString(query.state)
      stateCookie == QueryString(cookie)
  IN  IF code = ""
        THEN Sent(400, "Missing code", {}, {})
      ELSE IF ~stateValid(state, stateCookie)
        THEN Sent(400, "Invalid state", {}, {"ms_oauth_state"})
      ELSE IF reply.throws
        THEN Sent(500, "Callback processing failed", {}, {})
      ELSE IF ~reply.ok
        THEN Sent(500, "Token exchange failed", {}, {})
      ELSE Sent(200, "html",
                { [name |-> "ms_access_token",
                   value |-> NullishOr(reply.json.access_token)],
                  [name |-> "ms_refresh_token",
                   value |-> NullishOr(reply.json.refresh_token)],
                  [name |-> "ms_scope",
                   value |-> NullishOr(reply.json.scope)] },
                {"ms_oauth_state"})

\* the browser's cookies once it has taken the response
applyCookies(jar, res) ==
  [n \in DOMAIN jar |->
     IF \E c \in res.cookies : c.name = n
       THEN << (CHOOSE c \in res.cookies : c.name = n).value >>
     ELSE IF n \in res.cleared THEN <<>>
     ELSE jar[n]]

\* msAuthRouter.get("/login"): a new state is issued as a cookie
msLogin ==
  /\ \E state \in MsStates, debug \in BOOLEAN :
       LET res == Sent(IF debug THEN 200 ELSE 302,
                       IF debug THEN "json" ELSE "redirect",
                       {[name |-> "ms_oauth_state", value |-> state]}, {})
       IN  ms' = [jar |-> applyCookies(ms.jar, res), route |-> "login",
                  res |-> res]
  /\ UNCHANGED <<tickVars, storeVars, appendVars, metaVars, uploadVars,
                 watchVars, nt>>

\* msAuthRouter.get("/callback")
msCallback ==
  /\ \E query \in CallbackQueries, reply \in TokenReplies :
       LET res == msCallbackResponse(query, ms.jar.ms_oauth_state, reply)
       IN  ms' = [jar |-> applyCookies(ms.jar, res), route |-> "callback",
                  res |-> res, query |-> query,
                  cookie |-> ms.jar.ms_oauth_state, reply |-> reply]
  /\ UNCHANGED <<tickVars, storeVars, appendVars, metaVars, uploadVars,
                 watchVars, nt>>

MsInit ==
  /\ TickIdle
  /\ StoreInit
  /\ AppendIdle
  /\ MetaIdle
  /\ UploadIdle
  /\ WatchIdle
  /\ AuthIdle

MsNext == msLogin \/ msCallback

SpecMs == MsInit /\ [][MsNext]_vars

\* -------------------------------------------------------------------- Notion
\* number of exportToNotion calls in one behaviour
MaxExports == 3

\* `notion_${sid}_${Math.random().toString(36).slice(2)}`
NotionState(sid, rand) == [sid |-> sid, rand |-> rand]

\* the values of the random part of a state
NotionRands == {1}

\* the access token Notion issues to the user of session sid
NotionTokenOf(sid) == <<"secret", sid>>

\* the requests a browser can make to /notion/callback, apart from its sid
NotionQueries ==
  [code : {<<>>, <<"c">>},
   state : {<<>>} \cup {<<NotionState(s, r)>> : s \in Sessions, r \in NotionRands},
   error : BOOLEAN]

\* notionRouter.get("/auth"): a state is stored in the session
notionAuth ==
  /\ \E sid \in Sessions, rand \in NotionRands :
       nt' = [nt EXCEPT !.sessions[sid].state = <<NotionState(sid, rand)>>]
  /\ UNCHANGED <<tickVars, storeVars, appendVars, metaVars, uploadVars,
                 watchVars, ms>>

\* notionRouter.get("/callback"): after the checks and a successful exchange
\* the token is kept in lastNotionAccessToken and in the session
notionCallback ==
  /\ \E sid \in Sessions, query \in NotionQueries,
        reply \in {"throws", "error", "ok"} :
       LET sess == nt.sessions[sid]
       IN  IF \/ query.error
              \/ query.code = <<>>
              \/ query.state = <<>>
              \/ query.state # sess.state
              \/ reply # "ok"
             THEN UNCHANGED nt
             ELSE nt' = [nt EXCEPT
                           !.lastNotionAccessToken = <<NotionTokenOf(sid)>>,
                           !.sessions[sid].notion = <<NotionTokenOf(sid)>>]
  /\ UNCHANGED <<tickVars, storeVars, appendVars, metaVars, uploadVars,
                 watchVars, ms>>

\* getClient(): NOTION_TOKEN || lastNotionAccessToken, <<>> when it throws
getClient ==
  IF nt.NOTION_TOKEN # "" THEN <<nt.NOTION_TOKEN>> ELSE nt.lastNotionAccessToken

\* exportToNotion is called for a request of session by: the checks, getClient
\* and, through resolveDbMapping, the cache test of getDatabase, which either
\* returns the cached schema or issues databases.retrieve
exportStart(p) ==
  /\ nt.calls[p].pc = "idle"
  /\ nt.exports < MaxExports
  /\ \E by \in Sessions :
       LET auth == getClient
           call == IF nt.NOTION_DB_ID = "" \/ auth = <<>>
                      THEN [pc |-> "done", by |-> by, token |-> <<>>,
                            result |-> "throw"]
                    ELSE IF nt.dbCache # <<>>
                      THEN [pc |-> "create", by |-> by, token |-> auth,
                            result |-> "none"]
                    ELSE [pc |-> "retrieve", by |-> by, token |-> auth,
                          result |-> "none"]
       IN  nt' = [nt EXCEPT !.calls[p] = call, !.exports = @ + 1]
  /\ UNCHANGED <<tickVars, storeVars, appendVars, metaVars, uploadVars,
                 watchVars, ms>>

\* _dbCache = await client.databases.retrieve(...): the schema is cached, or
\* the rejection leaves _dbCache as it is and ends the export
exportRetrieved(p) ==
  /\ nt.calls[p].pc = "retrieve"
  /\ \/ nt' = [nt EXCEPT !.dbCache = <<"schema">>,
                         !.retrieved = @ + 1,
                         !.calls[p].pc = "create"]
     \/ nt' = [nt EXCEPT !.calls[p].pc = "done", !.calls[p].result = "throw"]
  /\ UNCHANGED <<tickVars, storeVars, appendVars, metaVars, uploadVars,
                 watchVars, ms>>

\* pages.create, pages.update and blocks.children.append return or reject
exportCreate(p) ==
  /\ nt.calls[p].pc = "create"
  /\ \E result \in {"ok", "throw"} :
       nt' = [nt EXCEPT !.calls[p].pc = "done", !.calls[p].result = result]
  /\ UNCHANGED <<tickVars, storeVars, appendVars, metaVars, uploadVars,
                 watchVars, ms>>

\* the caller has taken the outcome
exportEnd(p) ==
  /\ nt.calls[p].pc = "done"
  /\ nt' = [nt EXCEPT !.calls[p] = NoExport]
  /\ UNCHANGED <<tickVars, storeVars, appendVars, metaVars, uploadVars,
                 watchVars, ms>>

\* the module is loaded with NOTION_DB_ID set and NOTION_TOKEN set or not
NotionInit ==
  /\ TickIdle
  /\ StoreInit
  /\ AppendIdle
  /\ MetaIdle
  /\ UploadIdle
  /\ WatchIdle
  /\ ms = MsIdle
  /\ nt \in {NtLoaded(envToken, dbId) : envToken \in {"", "env"}, dbId \in {"", "db"}}

\* logins of the sessions and exports, the exports overlapping
NotionNext ==
  \/ notionAuth
  \/ notionCallback
  \/ \E p \in Procs : \/ exportStart(p)
                      \/ exportRetrieved(p)
                      \/ exportCreate(p)
                      \/ exportEnd(p)

SpecNotion == NotionInit /\ [][NotionNext]_vars

\* ------------------------------------------------------------- properties
\* handler p has issued some call for item id
Touched(p, id) ==
  \E k \in 1..Len(calls[p]) : calls[p][k].op # "list" /\ calls[p][k].id = id

\* position of item id in the batch of handler p
BatchPos(p, id) == CHOOSE k \in 1..Len(batch[p]) : batch[p][k] = id

\* the names of the catalogue that are PDF documents, listed by hand
PdfNames ==
  { <<"a",".","p","d","f">>, <<"B",".","P","D","F">>,
    <<"c",".","P","d","f">>, <<"d",".","p","d","f">> }

\* the listed ids that are PDF documents: files, not folders, with a PDF name
ListedPdfs(p) ==
  SelectSeq(listing[p],
            LAMBDA i : DriveItem(i).file /\ DriveItem(i).name \in PdfNames)

\* the steps that come after the relocation of an item
LaterOps == {"download", "extract", "model", "notion", "excel"}

\* C1: in a tick whose listing succeeded, no failure at a step of one item
\* aborts the batch: the tick ends with the 2xx aggregate report and, when
\* items were selected, results holds exactly one entry per selected item, in
\* order.
C1_FailureNeverAbortsBatch ==
  \A p \in Procs :
    (pc[p] = "done" /\ ListingOk(p)) =>
      /\ response[p].status = 200
      /\ response[p].body.ok
      /\ files[p] # <<>> =>
           /\ response[p].body.results = results[p]
           /\ Len(results[p]) = Len(batch[p])
           /\ \A k \in 1..Len(batch[p]) :
                results[p][k].file = DriveItem(batch[p][k]).name

\* C2: a tick answers with a non-2xx status only when the credential is
\* missing or the listing failed, and in such a tick no item has been
\* relocated or downloaded.
C2_ErrorOnlyBeforeRelocation ==
  \A p \in Procs :
    (response[p].sent /\ response[p].status \notin 200..299) =>
      /\ Falsy(token[p]) \/ (calls[p] # <<>> /\ ~ListingOk(p))
      /\ \A i \in Items : ~Issued(p, "move", i, "ok")
                          /\ ~Issued(p, "download", i, "ok")

\* C3: a download, extraction, model call or export for an item is issued
\* only after the relocation of that same item was answered with success in
\* the same tick; an item whose relocation failed gets none of them.
C3_DownloadOnlyAfterOwnRelocation ==
  \A p \in Procs : \A k \in 1..Len(calls[p]) :
    calls[p][k].op \in LaterOps =>
      \E j \in 1..(k - 1) :
        /\ calls[p][j].op = "move"
        /\ calls[p][j].id = calls[p][k].id
        /\ calls[p][j].result = "ok"

\* a finished tick in which one item failed to relocate and another item
\* was downloaded
C3_Witness ==
  \E p \in Procs :
    /\ pc[p] = "done"
    /\ \E i \in Items : Issued(p, "move", i, "status")
    /\ \E i \in Items : Issued(p, "download", i, "ok")

\* C4: when the relocation of a selected item fails (here: is answered with
\* an error status), the tick has recorded for it a result with ok=false and
\* error kind move_failed, the item is still in the inbox, and the loop goes
\* on (the tick does not end in an error response).
C4_MoveFailedRecorded ==
  \A p \in Procs : \A i \in Items :
    Issued(p, "move", i, "status") =>
      /\ Len(results[p]) >= BatchPos(p, i)
      /\ LET r == results[p][BatchPos(p, i)]
         IN  /\ r.ok = FALSE
             /\ "error" \in DOMAIN r
             /\ r.error = "move_failed"
      /\ loc[i] = ONEDRIVE_ENTRADA_PATH
      /\ response[p].sent => response[p].status = 200

\* C5: when the relocation succeeded and the download is answered with the
\* error status s, the item is in the Processed folder and its result is
\* ok=false with error download_failed_s.
C5_DownloadFailedLeavesProcessed ==
  \A p \in Procs : \A k \in 1..Len(calls[p]) :
    (calls[p][k].op = "download" /\ calls[p][k].result = "status") =>
      LET i == calls[p][k].id
      IN  /\ loc[i] = ONEDRIVE_PROCESSADOS_PATH
          /\ Len(results[p]) >= BatchPos(p, i)
          /\ LET r == results[p][BatchPos(p, i)]
             IN  /\ DOMAIN r = {"ok", "error", "file"}
                 /\ r.ok = FALSE
                 /\ r.file = DriveItem(i).name
                 /\ calls[p][k].status = 404 => r.error = "download_failed_404"
                 /\ calls[p][k].status = 503 => r.error = "download_failed_503"
                 /\ calls[p][k].status \in {404, 503}

\* a finished tick with a download answered 503 after a successful relocation
C5_Witness ==
  \E p \in Procs : \E k \in 1..Len(calls[p]) :
    /\ pc[p] = "done"
    /\ calls[p][k].op = "download"
    /\ calls[p][k].result = "status"
    /\ calls[p][k].status = 503
    /\ Issued(p, "move", calls[p][k].id, "ok")

\* C6: every tick that returns a report has processed <= found and
\* processed <= batchSize.
C6_ProcessedBounded ==
  \A p \in Procs :
    (response[p].sent /\ response[p].status = 200) =>
      /\ response[p].body.processed <= response[p].body.found
      /\ LessEq(Num(10 * response[p].body.processed), BATCH_SIZE)

\* C7: with batch size b and n matching files listed, the tick attempts the
\* relocation of exactly the first min(b, n) matching items; the other
\* matching items get no call and are still in the inbox.
C7_FirstMinRelocated ==
  \A p \in Procs :
    (pc[p] = "done" /\ ListingOk(p)) =>
      LET n     == Len(files[p])
          m     == MathMin(BATCH_SIZE, Num(10 * n))
          moved == {i \in Items : \E r \in {"ok", "status", "throw"} :
                                    Issued(p, "move", i, r)}
      IN  /\ ~m.nan
          /\ 10 * Cardinality(moved) = m.x10
          /\ \A k \in 1..n :
               IF k <= Cardinality(moved)
                 THEN files[p][k] \in moved
                 ELSE /\ ~Touched(p, files[p][k])
                      /\ loc[files[p][k]] = ONEDRIVE_ENTRADA_PATH

C9_CandidatesArePdfFiles ==
  \A p \in Procs :
    ListingOk(p) =>
      /\ files[p] = ListedPdfs(p)
      /\ \A k \in 1..Len(batch[p]) : batch[p][k] \in {ListedPdfs(p)[j] : j \in 1..Len(ListedPdfs(p))}
      /\ (response[p].sent /\ response[p].status = 200) =>
           response[p].body.found = Len(ListedPdfs(p))

\* a finished tick whose listing held a folder named like a PDF, a text file
\* and the upper-case B.PDF, and which selected B.PDF
C9_Witness ==
  \E p \in Procs :
    /\ pc[p] = "done"
    /\ ListingOk(p)
    /\ {2, 3, 4} \subseteq {listing[p][k] : k \in 1..Len(listing[p])}
    /\ DriveItem(3).name = <<"B",".","P","D","F">>
    /\ Issued(p, "move", 3, "ok")

\* C10: when no listed item matches, the tick answers ok=true with
\* processed = 0 and found = 0 and issues no relocation and no download.
C10_NothingFound ==
  \A p \in Procs :
    (pc[p] = "done" /\ ListingOk(p) /\ ListedPdfs(p) = <<>>) =>
      /\ response[p].status = 200
      /\ response[p].body.ok
      /\ response[p].body.processed = 0
      /\ response[p].body.found = 0
      /\ \A k \in 1..Len(calls[p]) : calls[p][k].op = "list"

\* a finished tick whose listing held only a folder and a text file
C10_Witness ==
  \E p \in Procs :
    /\ pc[p] = "done"
    /\ ListingOk(p)
    /\ listing[p] = <<2, 4>>
    /\ response[p].sent
    /\ response[p].body.found = 0

\* C11: a tick invoked without a credential (no access-token cookie and no
\* access-token header) answers ok=false with a non-2xx status and has issued
\* no list, relocation or download call.
C11_NoCredentialNoCalls ==
  /\ [][\A p \in Procs :
          (/\ pc[p] = "start"
           /\ Falsy(req[p].cookie)
           /\ Falsy(req[p].header)
           /\ pc'[p] # "start") =>
            /\ pc'[p] = "done"
            /\ response'[p].sent
            /\ response'[p].status \notin 200..299
            /\ response'[p].body.ok = FALSE
            /\ calls'[p] = <<>>]_vars
  /\ [](\A p \in Procs :
          (pc[p] = "done" /\ Falsy(token[p])) =>
            /\ response[p].status = 401
            /\ calls[p] = <<>>)

\* a tick that was refused for lack of a credential while PDFs wait in the
\* inbox
C11_Witness ==
  \E p \in Procs :
    /\ pc[p] = "done"
    /\ response[p] = missingTokenResponse
    /\ loc[1] = ONEDRIVE_ENTRADA_PATH

\* C12: a tick run against a drive where the inbox folder does not exist (the
\* children request is answered 404) ends with ok=true, found = 0 and
\* processed = 0, not with an error status.
C12_MissingInboxListsEmpty ==
  \A p \in Procs :
    (pc[p] = "done" /\ ~inboxExists /\ calls[p] # <<>>
       /\ calls[p][1].op = "list" /\ calls[p][1].status = 404) =>
      /\ response[p].status = 200
      /\ response[p].body.ok
      /\ response[p].body.found = 0
      /\ response[p].body.processed = 0

\* C13: in the aggregate report, found is the number of matching items of
\* the listing, processed is the number of entries of results, one per
\* selected item, success is the number of entries with ok=true, and
\* results[i].file is the name of the i-th matching item of the listing.
C13_ReportCounts ==
  \A p \in Procs :
    (response[p].sent /\ response[p].status = 200
       /\ "results" \in DOMAIN response[p].body) =>
      LET b   == response[p].body
          sel == ListedPdfs(p)
      IN  /\ b.found = Len(sel)
          /\ b.processed = Len(b.results)
          /\ b.processed = Len(batch[p])
          /\ b.success = Cardinality({k \in 1..Len(b.results) : b.results[k].ok})
          /\ Len(b.results) <= Len(sel)
          /\ \A k \in 1..Len(b.results) :
               b.results[k].file = DriveItem(sel[k]).name

\* a report over three candidates with two entries, one of them a success
C13_Witness ==
  \E p \in Procs :
    /\ response[p].sent
    /\ response[p].status = 200
    /\ "results" \in DOMAIN response[p].body
    /\ response[p].body.found = 3
    /\ response[p].body.processed = 2
    /\ response[p].body.success = 1

\* C14: for every item a tick reports with ok=true, one row for it has been
\* appended to the tabular store and a knowledge-base page has been created
\* for it, unless that export itself failed.
C14_OkItemsRecorded ==
  \A p \in Procs :
    (response[p].sent /\ "results" \in DOMAIN response[p].body) =>
      \A k \in 1..Len(response[p].body.results) :
        LET r == response[p].body.results[k]
        IN  (/\ r.ok
             /\ Issued(p, "notion", r.id, "ok")
             /\ Issued(p, "excel", r.id, "ok")) =>
              /\ \E page \in pages : page.title = r.title
              /\ blob # <<>>
              /\ \E n \in 2..Len(SheetRows(blob)) :
                   SheetRows(blob)[n][1] = r.title

\* C18: starting from an absent workbook, n sequential successful appends
\* leave a first sheet of n + 1 rows, the 7-column header followed by the n
\* rows in call order; every write keeps the rows already there in place, and
\* a row identical to an earlier one is appended again.
C18_SequentialAppends ==
  /\ []((hist # <<>> /\ \A k \in 1..Len(hist) : hist[k].status = 200) =>
          /\ blob # <<>>
          /\ Len(SheetRows(blob)) = Len(hist) + 1
          /\ SheetRows(blob)[1] = HeaderRow
          /\ Len(HeaderRow) = 7
          /\ \A k \in 1..Len(hist) : SheetRows(blob)[k + 1] = hist[k].row)
  /\ [][blob # <<>> =>
          /\ blob' # <<>>
          /\ Len(SheetRows(blob')) \in {Len(SheetRows(blob)),
                                        Len(SheetRows(blob)) + 1}
          /\ \A k \in 1..Len(SheetRows(blob)) :
               SheetRows(blob')[k] = SheetRows(blob)[k]]_vars

\* two successful appends of the same row, one after the other
C18_Witness ==
  /\ Len(hist) = 2
  /\ hist[1].status = 200
  /\ hist[2].status = 200
  /\ hist[1].row = hist[2].row
  /\ SheetRows(blob) = <<HeaderRow, hist[1].row, hist[2].row>>

\* C19: an append is a read-modify-write without lock or version check: the
\* write of a successful append leaves the workbook holding the rows the
\* request read followed by its own row, whatever was written since, so of two
\* concurrent appends that read the same workbook only the last writer's row
\* remains.
C19_LastWriterWins ==
  [][(Len(hist') = Len(hist) + 1 /\ hist'[Len(hist')].status = 200) =>
       LET e == hist'[Len(hist')]
       IN  SheetRows(blob') = SheetRows(e.read) \o <<e.row>>]_vars

\* both requests read the same workbook and both were answered ok; the
\* workbook holds the second writer's row and not the first's
C19_Witness ==
  /\ Len(hist) = 2
  /\ hist[1].status = 200
  /\ hist[2].status = 200
  /\ hist[1].read = hist[2].read
  /\ hist[1].row # hist[2].row
  /\ SheetRows(blob) = SheetRows(hist[2].read) \o <<hist[2].row>>
  /\ \A n \in 1..Len(SheetRows(blob)) : SheetRows(blob)[n] # hist[1].row

\* the fields of a metadata record
MetaFields ==
  {"title", "authors", "keywords", "abstract", "conclusion", "fileName",
   "fileUrl"}

\* whether OPENAI_API_KEY holds a credential
KeyConfigured(keyEnv) == keyEnv.defined /\ keyEnv.value # <<>>

\* the title expected of the heuristic path for a case and a name, the line
\* taken without the white space at its ends
HeuristicTitle(c, n) ==
  IF MetaCases[c].blank THEN NameCases[n].stem ELSE MetaCases[c].stripped

\* C15: generateMetadata never raises to its caller: for every text, file
\* name and outcome of the model call it returns a metadata record.
C15_NeverRaises ==
  \A k \in 1..Len(gm) :
    /\ ~gm[k].out.raised
    /\ MetaFields \subseteq DOMAIN gm[k].out.value
    /\ gm[k].out.value.title.t = "string"
    /\ gm[k].out.value.authors.t = "array"
    /\ gm[k].out.value.keywords.t = "array"
    /\ gm[k].out.value.abstract.t = "string"
    /\ gm[k].out.value.conclusion.t = "string"

\* a call under a configured key whose model call failed has returned
C15_Witness ==
  /\ gm # <<>>
  /\ KeyConfigured(gm[1].keyEnv)
  /\ gm[1].reply = BodyNotJson
  /\ ~gm[1].out.raised
  /\ gm[1].out.value.title = Str(<<"T","1">>)

\* C16: with a model credential configured, when the model call errors (the
\* transport fails, or the response is an error without a usable completion)
\* or its answer cannot be parsed as JSON, generateMetadata returns the
\* heuristic record: title the first non-blank line of the text, or the file
\* name without extension, cut to 180 characters; abstract the first 1200
\* characters of the text; every other field empty.
C16_FailedModelFallsBack ==
  \A k \in 1..Len(gm) :
    (/\ KeyConfigured(gm[k].keyEnv)
     /\ gm[k].reply \in {FetchRejects, BodyNotJson, NoCompletion,
                         Completion(ParseThrows)}) =>
      /\ gm[k].out.value.title = Str(HeuristicTitle(gm[k].case, gm[k].name))
      /\ gm[k].out.value.abstract = Str(MetaCases[gm[k].case].head)
      /\ gm[k].out.value.authors = Arr(<<>>)
      /\ gm[k].out.value.keywords = Arr(<<>>)
      /\ gm[k].out.value.conclusion = Str(<<>>)

\* C17 as stated: without a model credential the record has no authors, no
\* keywords, an empty conclusion and as title the first non-blank line of the
\* text as it stands, or the file name without its extension, cut to 180
\* characters; the model is not called.
C17_TitleIsFirstLine ==
  \A k \in 1..Len(gm) :
    (~KeyConfigured(gm[k].keyEnv) /\ gm[k].name \in {1, 2}) =>
      /\ gm[k].out.value.authors = Arr(<<>>)
      /\ gm[k].out.value.keywords = Arr(<<>>)
      /\ gm[k].out.value.conclusion = Str(<<>>)
      /\ gm[k].out.value.title =
           Str(IF MetaCases[gm[k].case].blank
                 THEN NameCases[gm[k].name].stem
                 ELSE MetaCases[gm[k].case].line)
      /\ ~gm[k].out.modelCalled

\* C17: without a model credential the record has no authors, no keywords, an
\* empty conclusion and as title the first non-blank line of the text without
\* the white space at its ends, or the file name without its .pdf extension,
\* cut to 180 characters; the model is not called.
C17_TitleIsTrimmedFirstLine ==
  \A k \in 1..Len(gm) :
    ~KeyConfigured(gm[k].keyEnv) =>
      /\ gm[k].out.value.authors = Arr(<<>>)
      /\ gm[k].out.value.keywords = Arr(<<>>)
      /\ gm[k].out.value.conclusion = Str(<<>>)
      /\ gm[k].out.value.title = Str(HeuristicTitle(gm[k].case, gm[k].name))
      /\ ~gm[k].out.modelCalled

\* without a credential, a text whose first non-blank line ends in a blank
C17_Witness ==
  /\ gm # <<>>
  /\ ~KeyConfigured(gm[1].keyEnv)
  /\ MetaCases[gm[1].case].line # MetaCases[gm[1].case].stripped
  /\ gm[1].out.value.title = Str(<<"T","1">>)
  /\ ~gm[1].out.modelCalled

\* the smaller of two integers
Min(a, b) == IF a <= b THEN a ELSE b

RECURSIVE Flatten(_)
\* the concatenation of a sequence of sequences
Flatten(ss) == IF ss = <<>> THEN <<>> ELSE Head(ss) \o Flatten(Tail(ss))

\* C20: in a chunked upload of total bytes with chunk size c, the k-th PUT
\* (k = 0, 1, ...) carries the bytes k*c to min((k+1)*c, total) - 1 with the
\* matching Content-Range and Content-Length; the ranges are contiguous, do
\* not overlap, never pass total - 1, only the last is shorter than c, and
\* once every PUT was answered 202 they cover exactly [0, total).
C20_ChunkRanges ==
  LET c     == up.chunkSize
      total == up.total
      n     == Len(up.puts)
  IN  /\ \A k \in 0..(n - 1) :
           LET put == up.puts[k + 1]
               s   == k * c
               e   == Min((k + 1) * c, total) - 1
           IN  /\ put.start = s
               /\ put.end = e
               /\ put.headers.ContentRange =
                    <<"b","y","t","e","s"," ">> \o DecimalString(s) \o <<"-">>
                      \o DecimalString(e) \o <<"/">> \o DecimalString(total)
               /\ DecimalVal(put.headers.ContentLength) = e - s + 1
               /\ put.body = [j \in 1..(e - s + 1) |-> UploadBuffer(total)[s + j]]
               /\ put.end <= total - 1
               /\ k > 0 => /\ put.start = up.puts[k].end + 1
                           /\ up.puts[k].status = 202
               /\ (put.end - put.start + 1 < c) => put.end = total - 1
               /\ (put.end - put.start + 1 # c) => k = n - 1
      /\ (up.pc = "done" /\ up.result = "undefined") =>
           Flatten([k \in 1..n |-> up.puts[k].body]) = UploadBuffer(total)

\* five bytes in chunks of two: three PUTs answered 202, the last of one byte
C20_Witness ==
  /\ up.pc = "done"
  /\ up.result = "undefined"
  /\ up.total = 5
  /\ up.chunkSize = 2
  /\ Len(up.puts) = 3
  /\ up.puts[3].headers.ContentRange = <<"b","y","t","e","s"," ","4","-","4","/","5">>
  /\ up.puts[3].headers.ContentLength = <<"1">>

\* C21: in a chunked upload a PUT answered 200 or 201 ends the upload with the
\* created item and no further PUT; a PUT answered 202 moves the window to
\* the next chunk; a PUT answered anything else ends the upload with an error
\* and no further PUT.
C21_PutStatusDecides ==
  LET n == Len(up.puts)
  IN  /\ \A k \in 1..(n - 1) :
           /\ up.puts[k].status = 202
           /\ up.puts[k + 1].start = up.puts[k].end + 1
      /\ n > 0 =>
           LET last == up.puts[n]
           IN  /\ last.status \in {200, 201} =>
                    up.pc = "done" /\ up.result = "item"
               /\ last.status \notin {200, 201, 202} =>
                    up.pc = "done" /\ up.result = "throw"
               /\ last.status = 202 =>
                    /\ up.result \in {"none", "undefined"}
                    /\ up.start = last.end + 1
                    /\ up.end = up.start + up.chunkSize - 1

\* the second PUT was answered 500 while bytes were still to be sent
C21_Witness ==
  /\ up.pc = "done"
  /\ up.result = "throw"
  /\ Len(up.puts) = 2
  /\ up.puts[1].status = 202
  /\ up.puts[2].status = 500
  /\ up.puts[2].end < up.total - 1

\* C22: after any sequence of watch/start, watch/stop and watch/tick calls the
\* status query reports running = false and changes no state, and no call
\* starts a background loop: the pipeline only ever runs for a tick request.
C22_NeverRunning ==
  /\ [](watch.route = "status" =>
          /\ watch.response.status = 200
          /\ watch.response.body.running = FALSE)
  /\ [][watch' # watch =>
          UNCHANGED <<tickVars, storeVars, appendVars, metaVars, uploadVars, authVars>>]_vars
  /\ [][\A p \in Procs :
          (pc[p] = "idle" /\ pc'[p] # "idle") =>
            /\ ticks' = ticks + 1
            /\ watch' = watch]_vars

\* the status is queried once the ticks have run and a.pdf was relocated
C22_Witness ==
  /\ watch.route = "status"
  /\ watch.response.body.running = FALSE
  /\ loc[1] = ONEDRIVE_PROCESSADOS_PATH
  /\ ticks = MaxTicks

\* the calls of handler p with the given operation for item id
CallsOf(p, op, id) ==
  {k \in 1..Len(calls[p]) : calls[p][k].op = op /\ calls[p][k].id = id}

\* C23: within one tick the selected items are processed one after another:
\* the calls of a tick follow the order of its batch, and the relocation of
\* an item is issued only once every earlier item has its result recorded.
C23_OneItemAtATime ==
  /\ [](\A p \in Procs : \A j, k \in 1..Len(calls[p]) :
          (j < k /\ calls[p][j].op # "list" /\ calls[p][k].op # "list") =>
            BatchPos(p, calls[p][j].id) <= BatchPos(p, calls[p][k].id))
  /\ [][\A p \in Procs : \A k \in (Len(calls[p]) + 1)..Len(calls'[p]) :
          calls'[p][k].op # "list" =>
            /\ calls'[p][k].id = batch[p][idx[p]]
            /\ Len(results[p]) = idx[p] - 1]_vars

\* the second item is relocated after the first was downloaded and recorded
C23_Witness ==
  \E p \in Procs :
    /\ Len(batch[p]) = 2
    /\ Len(results[p]) = 1
    /\ results[p][1].ok
    /\ pc[p] = "download"
    /\ Issued(p, "download", batch[p][1], "ok")
    /\ Issued(p, "move", batch[p][2], "ok")

\* C29: there is no retry: within one tick every selected item gets at most
\* one relocation call and at most one download call, and the listing is
\* requested exactly once, whatever those calls answer.
C29_NoRetry ==
  \A p \in Procs :
    /\ Cardinality(CallsOf(p, "list", 0)) <= 1
    /\ (pc[p] \in {"move", "download", "process"}
          \/ (pc[p] = "done" /\ ~Falsy(token[p]))) =>
         Cardinality(CallsOf(p, "list", 0)) = 1
    /\ \A i \in Items :
         /\ Cardinality(CallsOf(p, "move", i)) <= 1
         /\ Cardinality(CallsOf(p, "download", i)) <= 1
         /\ i \notin {batch[p][k] : k \in 1..Len(batch[p])} =>
              CallsOf(p, "move", i) \cup CallsOf(p, "download", i) = {}

\* a tick that ended after a refused relocation and a refused download, each
\* asked once
C29_Witness ==
  \E p \in Procs :
    /\ pc[p] = "done"
    /\ Len(batch[p]) = 2
    /\ Issued(p, "move", batch[p][1], "status")
    /\ Issued(p, "download", batch[p][2], "status")
    /\ Len(calls[p]) = 4

\* the relocation calls handler p has issued
Iterations(p) ==
  Cardinality({k \in 1..Len(calls[p]) : calls[p][k].op = "move"})

\* C24: every tick ends with exactly one structured JSON response, the
\* aggregate report or {ok: false, error}, after at most batchSize per-item
\* iterations (none when the batch size is not a number), provided every
\* remote call returns or throws; no tick ends without a response or sends two.
C24_TickAnswersOnce ==
  /\ \A p \in SeqProcs :
       (pc[p] = "start") ~> (pc[p] = "done" /\ response[p].sent)
  /\ [](\A p \in Procs :
          /\ response[p].sent <=> pc[p] = "done"
          /\ response[p].sent =>
               /\ "ok" \in DOMAIN response[p].body
               /\ response[p].body.ok =>
                    /\ response[p].status = 200
                    /\ {"found", "processed"} \subseteq DOMAIN response[p].body
               /\ ~response[p].body.ok =>
                    /\ response[p].status \in {401, 500}
                    /\ "error" \in DOMAIN response[p].body
          /\ Iterations(p) <= Len(batch[p])
          /\ IF BATCH_SIZE.nan THEN Iterations(p) = 0
             ELSE 10 * Iterations(p) <= BATCH_SIZE.x10)
  /\ [][\A p \in Procs :
          response[p].sent =>
            (response'[p] = response[p] \/ ~response'[p].sent)]_vars

\* a tick whose second relocation threw has answered tick_exception
C24_Witness ==
  \E p \in Procs :
    /\ pc[p] = "done"
    /\ response[p] = tickExceptionResponse
    /\ Iterations(p) = 2

\* C25: a tick makes progress: when every remote call succeeds, a tick that
\* found n > 0 PDFs moves min(batchSize, n) of them out of the inbox, which is
\* what lets repeated ticks empty the inbox of PDFs.
C25_TickMakesProgress ==
  \A p \in Procs :
    (/\ pc[p] = "done"
     /\ ListingOk(p)
     /\ files[p] # <<>>
     /\ \A k \in 1..Len(calls[p]) : calls[p][k].result \notin {"status", "throw"}) =>
      LET n     == Len(files[p])
          m     == MathMin(BATCH_SIZE, Num(10 * n))
          moved == {k \in 1..n : loc[files[p][k]] = ONEDRIVE_PROCESSADOS_PATH}
      IN  /\ ~m.nan
          /\ moved # {}
          /\ 10 * Cardinality(moved) = m.x10

C27_ExtractionFailureRecorded ==
  /\ [](\A p \in Procs : \A k \in 1..Len(results[p]) :
          Issued(p, "extract", batch[p][k], "throw") =>
            /\ results[p][k] = [ok |-> FALSE, error |-> "exception",
                                file |-> DriveItem(batch[p][k]).name]
            /\ Issued(p, "download", batch[p][k], "ok")
            /\ loc[batch[p][k]] = ONEDRIVE_PROCESSADOS_PATH)
  /\ [][\A p \in Procs :
          (/\ pc[p] = "process"
           /\ pc'[p] # "process"
           /\ calls'[p][Len(calls'[p])] =
                Call("extract", batch[p][idx[p]], "throw", 0)) =>
            /\ Len(results'[p]) = Len(results[p]) + 1
            /\ IF idx[p] < Len(batch[p])
                 THEN pc'[p] = "move" /\ idx'[p] = idx[p] + 1
                 ELSE /\ pc'[p] = "done"
                      /\ response'[p].status = 200
                      /\ response'[p].body.results = results'[p]]_vars

\* the extraction of the first item threw and the second item was processed
C27_Witness ==
  \E p \in Procs :
    /\ pc[p] = "done"
    /\ Len(results[p]) = 2
    /\ Issued(p, "extract", batch[p][1], "throw")
    /\ results[p][1].error = "exception"
    /\ results[p][2].ok
    /\ loc[batch[p][1]] = ONEDRIVE_PROCESSADOS_PATH

\* the object the model answered with, when its answer is one
AnsweredObject(reply) ==
  IF reply.kind = "completion" /\ ~reply.parsed.throws
       /\ reply.parsed.value.t = "object"
    THEN reply.parsed.value.v
    ELSE EmptyObject

\* C28: every record generateMetadata returns, on the model path and on the
\* fallback path, has title, authors, keywords, abstract, conclusion and
\* fileName present: title, abstract and conclusion are strings, authors and
\* keywords are sequences, empty when the model gives none or something that
\* is not a sequence, and no field is absent or undefined.
C28_RecordIsComplete ==
  \A k \in 1..Len(gm) :
    LET v    == gm[k].out.value
        meta == AnsweredObject(gm[k].reply)
    IN  /\ {"title", "authors", "keywords", "abstract", "conclusion",
            "fileName"} \subseteq DOMAIN v
        /\ \A f \in {"title", "abstract", "conclusion"} : v[f].t = "string"
        /\ \A f \in {"authors", "keywords"} :
             /\ v[f].t = "array"
             /\ (gm[k].out.modelCalled /\ ~gm[k].reply.parsed.throws
                   /\ gm[k].reply.kind = "completion"
                   /\ gm[k].reply.parsed.value.t # "null"
                   /\ (f \notin DOMAIN meta \/ meta[f].t # "array")) =>
                  v[f] = Arr(<<>>)
        /\ \A f \in DOMAIN v : v[f].t \in {"string", "array", "object", "null"}

\* the model answered keywords as a string and authors as a sequence
C28_Witness ==
  /\ gm # <<>>
  /\ gm[1].out.modelCalled
  /\ "keywords" \in DOMAIN AnsweredObject(gm[1].reply)
  /\ AnsweredObject(gm[1].reply).keywords.t = "string"
  /\ gm[1].out.value.keywords = Arr(<<>>)
  /\ gm[1].out.value.authors = Arr(<< <<"A">> >>)
  /\ gm[1].out.value.title = Str(<<"T">>)

\* the PDF documents that are in the inbox, in listing order
InboxPdfs ==
  SelectSeq(Ascending({i \in Items : loc[i] = ONEDRIVE_ENTRADA_PATH}),
            LAMBDA i : DriveItem(i).file /\ DriveItem(i).name \in PdfNames)

\* C30: nothing in a tick excludes an item selected by another running tick:
\* a listing that succeeds yields every PDF then in the inbox, whatever the
\* other handlers hold, so two overlapping ticks that list before either
\* relocates select the same item and both relocate, download and record it.
C30_SelectionIgnoresOtherTicks ==
  [][\A p \in Procs :
       (/\ pc[p] = "list"
        /\ Len(calls'[p]) = Len(calls[p]) + 1
        /\ calls'[p][Len(calls'[p])] = Call("list", 0, "ok", 200)) =>
         /\ files'[p] = InboxPdfs
         /\ InboxPdfs # <<>> =>
              /\ pc'[p] = "move"
              /\ batch'[p] = SubSeq(InboxPdfs, 1,
                                    IF Len(InboxPdfs) < 2 THEN Len(InboxPdfs) ELSE 2)]_vars

\* both handlers listed a.pdf before either relocated it, and both report it
\* with ok=true
C30_Witness ==
  /\ pc[1] = "done"
  /\ pc[2] = "done"
  /\ results[1] # <<>>
  /\ results[2] # <<>>
  /\ results[1][1].ok
  /\ results[2][1].ok
  /\ results[1][1].id = results[2][1].id
  /\ calls[1][2] = Call("move", 1, "ok", 200)
  /\ calls[2][2] = Call("move", 1, "ok", 200)

\* handler p has asked for the relocation of item i and the drive carried
\* it out
RelocatedBy(p, i) ==
  \E k \in 1..Len(calls[p]) :
    /\ calls[p][k].op = "move"
    /\ calls[p][k].id = i
    /\ calls[p][k].result # "status"

\* C31: in a sequence of non-overlapping ticks an item relocated by one tick
\* is never selected by a later one: a selected item that is in the processed
\* folder was put there by the running tick itself, a download is asked only
\* for an item the running tick relocated, and nothing takes an item out of
\* the processed folder; so every item is downloaded and reported at most
\* once over the whole sequence.
C31_RelocatedNeverReselected ==
  /\ [](\A p \in SeqProcs :
          /\ \A k \in 1..Len(batch[p]) :
               loc[batch[p][k]] = ONEDRIVE_PROCESSADOS_PATH =>
                 RelocatedBy(p, batch[p][k])
          /\ \A i \in Items :
               /\ CallsOf(p, "download", i) # {} =>
                    /\ Issued(p, "move", i, "ok")
                    /\ Cardinality(CallsOf(p, "download", i)) = 1
               /\ Cardinality({k \in 1..Len(results[p]) :
                                 results[p][k].ok /\ results[p][k].id = i}) <= 1)
  /\ [][\A i \in Items :
          loc[i] = ONEDRIVE_PROCESSADOS_PATH =>
            loc'[i] = ONEDRIVE_PROCESSADOS_PATH]_vars

\* the second tick has selected b.pdf while a.pdf, relocated and reported by
\* the first tick, is in the processed folder and is not selected again
C31_Witness ==
  /\ ticks = 2
  /\ pc[1] = "download"
  /\ batch[1] = <<3>>
  /\ loc[1] = ONEDRIVE_PROCESSADOS_PATH
  /\ loc[3] = ONEDRIVE_PROCESSADOS_PATH
  /\ ~RelocatedBy(1, 1)
  /\ RelocatedBy(1, 3)

\* C32: under repeated non-overlapping ticks on a drive that refuses the
\* relocation of some inbox PDFs every time, every inbox PDF whose own
\* relocation would succeed is eventually relocated.
C32_NoStarvation ==
  \A i \in Items :
    (/\ faults.fixed
     /\ i \notin faults.stuck
     /\ loc[i] = ONEDRIVE_ENTRADA_PATH
     /\ isPdfFile(DriveItem(i)))
      ~> (loc[i] = ONEDRIVE_PROCESSADOS_PATH)

\* C33: uploadLargeFile returns normally only with the item description of
\* a PUT answered 200 or 201: it never returns without the upload having been
\* completed, neither for an empty buffer nor when the last chunk is answered
\* 202.
C33_ReturnsCreatedItem ==
  (up.pc = "done" /\ up.result # "throw") =>
    /\ up.result = "item"
    /\ up.puts # <<>>
    /\ up.puts[Len(up.puts)].status \in {200, 201}

\* the rows of the answered appends that succeeded, in order
AppendedRows ==
  LET ok == SelectSeq(hist, LAMBDA h : h.status = 200)
  IN  [k \in 1..Len(ok) |-> ok[k].row]

\* C34: a failed append has no effect on the store: with the requests served
\* one after the other from an absent workbook, the blob is what the
\* successful requests alone made of it, absent when none has succeeded and
\* otherwise the header followed by their rows.
C34_FailedAppendNoEffect ==
  (\A p \in Procs : ap[p].pc \in {"idle", "done"}) =>
    IF AppendedRows = <<>>
      THEN blob = <<>>
      ELSE /\ blob # <<>>
           /\ SheetRows(blob) = <<HeaderRow>> \o AppendedRows

\* C35: the record generated for an item carries the item's own name as
\* fileName, no fileUrl and only the declared fields, whatever keys the
\* answer of the model holds.
C35_FileNameIsTheItemsName ==
  \A k \in 1..Len(gm) :
    LET v == gm[k].out.value
    IN  /\ v.fileName = Str(NameCases[gm[k].name].name)
        /\ v.fileUrl = Null
        /\ DOMAIN v = MetaFields

\* the names of the token cookies a response sets
TokenCookiesSet(res) ==
  {c.name : c \in res.cookies} \cap {"ms_access_token", "ms_refresh_token"}

\* the request ms.query/ms.cookie carries a code and a non-empty state equal
\* to the state cookie that /login issued, and the token exchange succeeded
ExchangeAccepted(m) ==
  /\ m.query.code \notin {<<>>, <<"">>}
  /\ m.query.state \notin {<<>>, <<"">>}
  /\ m.query.state = m.cookie
  /\ m.cookie[1] \in MsStates
  /\ ~m.reply.throws
  /\ m.reply.ok

\* C36: the callback sets the access-token and refresh-token cookies only for
\* a request that carries a code and a non-empty state equal to the state
\* cookie issued by /login, and only when the token exchange succeeded; in
\* every other case the response sets no token cookie and the browser's token
\* cookies stay as they were.
C36_TokensOnlyAfterValidExchange ==
  /\ [](ms.route = "callback" =>
          /\ TokenCookiesSet(ms.res) # {} => ExchangeAccepted(ms)
          /\ ExchangeAccepted(ms) =>
               TokenCookiesSet(ms.res) = {"ms_access_token", "ms_refresh_token"}
          /\ ~ExchangeAccepted(ms) => ms.res.status # 200)
  /\ [][(/\ ms'.route = "callback"
         /\ \/ ms'.jar.ms_access_token # ms.jar.ms_access_token
            \/ ms'.jar.ms_refresh_token # ms.jar.ms_refresh_token) =>
          ExchangeAccepted(ms')]_vars

\* a callback with the state /login issued and a successful exchange has set
\* both token cookies and cleared the state cookie
C36_Witness ==
  /\ ms.route = "callback"
  /\ ms.res.status = 200
  /\ ms.query.state = <<"ms_2">>
  /\ ms.jar.ms_access_token = <<"at">>
  /\ ms.jar.ms_refresh_token = <<"rt">>
  /\ ms.jar.ms_oauth_state = <<>>

\* C37: with NOTION_TOKEN unset, an export requested by a session uses the
\* credential of that session's own login: a callback completed by another
\* session does not replace it, and a session that never logged in does not
\* export with another session's token.
C37_ExportUsesOwnCredential ==
  nt.NOTION_TOKEN = "" =>
    \A p \in Procs :
      nt.calls[p].token # <<>> =>
        nt.calls[p].token = nt.sessions[nt.calls[p].by].notion

\* C38: across any interleaving of exportToNotion calls the schema of the
\* database is retrieved from Notion at most once, a call that finds the
\* cache filled retrieves nothing, and a failed retrieval is not cached.
C38_SchemaRetrievedOnce ==
  /\ [](/\ nt.retrieved <= 1
        /\ nt.dbCache # <<>> => nt.retrieved >= 1)
  /\ [][\A p \in Procs :
          (nt.dbCache # <<>> /\ nt.calls[p].pc = "idle") =>
            nt'.calls[p].pc # "retrieve"]_vars

====
